---- MODULE Spec2Model ----
(***************************************************************************)
(* Payroll-System (server/routes.ts with the MySQLStorage of storage.ts):  *)
(* the request handlers of the attendance recorder, the leave workflow and *)
(* the payroll generator as a state machine over the database tables.      *)
(*                                                                         *)
(* A handler runs as a sequence of atomic steps, one per awaited storage   *)
(* call together with the synchronous code that follows it; between two    *)
(* steps of one request the steps of other requests may run.  The          *)
(* sequential specifications start a request only when no other request is *)
(* in flight; the concurrent ones let the steps of two requests interleave.*)
(***************************************************************************)
EXTENDS Integers, Sequences, FiniteSets, TLC

VARIABLES
    now,         \* the server clock: an instant, in time units since 2024-01-01T00:00Z
    tz,          \* the server's time zone: local time minus UTC, in time units
    users,       \* table users: set of [id, role, positionId]
    positions,   \* table positions: set of [id, hourlyRate]
    attendance,  \* table attendance
    leaves,      \* table leaves
    payroll,     \* table payroll
    config,      \* table config: set of [id, key, value]
    nextId,      \* the AUTO_INCREMENT counter of every table
    reqs,        \* the requests in flight: slot -> the handler's position and locals
    res          \* the response sent by the step just taken (NoRes when it sent none)

vars == <<now, tz, users, positions, attendance, leaves, payroll, config, nextId, reqs, res>>

-----------------------------------------------------------------------------
(* Bounds of the model *)

MaxReq    == 2     \* requests whose steps may interleave
MaxUsers  == 2     \* user ids 1..MaxUsers
MaxAttId  == 2     \* attendance rows ever inserted
MaxLeaveId == 2    \* leave rows ever inserted
MaxPayId  == 4     \* payroll rows ever inserted
MaxConfigId == 4   \* config entries ever inserted

Slots   == 1..MaxReq
UserIds == 1..MaxUsers

-----------------------------------------------------------------------------
(* Optional values: a SQL NULL, a missing JSON field, an empty string *)

None      == <<>>
Some(v)   == <<v>>
IsSet(o)  == o # <<>>
Val(o)    == o[1]
Option(S) == {None} \cup {Some(v) : v \in S}

-----------------------------------------------------------------------------
(* Time.  One time unit is 30 s, so that an instant can fall strictly      *)
(* between two whole minutes; Math.floor(ms / 60000) is \div MinuteLen.    *)

MinuteLen == 2
HourLen   == 60 * MinuteLen
DayLen    == 24 * HourLen

\* h:m o'clock as an offset from midnight
Clock(h, m) == h * HourLen + m * MinuteLen

MonthLengths == <<31, 29, 31, 30, 31, 30, 31, 31, 30, 31, 30, 31>>   \* 2024

RECURSIVE MonthDay(_, _)
\* <<month, day of month>> of the d-th day (from 0) counted from the 1st of month m
MonthDay(m, d) ==
    IF d < MonthLengths[m] THEN <<m, d + 1>> ELSE MonthDay(m + 1, d - MonthLengths[m])

RECURSIVE DaysBefore(_)
DaysBefore(m) == IF m = 1 THEN 0 ELSE DaysBefore(m - 1) + MonthLengths[m - 1]

DigitChars == <<"0", "1", "2", "3", "4", "5", "6", "7", "8", "9">>
IsDigit(c) == \E i \in 1..10 : DigitChars[i] = c
DigitVal(c) == (CHOOSE i \in 1..10 : DigitChars[i] = c) - 1
TwoDigits(n) == <<DigitChars[(n \div 10) + 1], DigitChars[(n % 10) + 1]>>

\* A string is the sequence of its characters.
\* Date.prototype.toISOString().split('T')[0]: the UTC calendar date of an instant
ISODate(t) ==
    LET md == MonthDay(1, t \div DayLen)
    IN  <<"2", "0", "2", "4", "-">> \o TwoDigits(md[1]) \o <<"-">> \o TwoDigits(md[2])

\* toISOString().substring(0, 7): the UTC month of an instant, "YYYY-MM"
ISOMonth(t) == SubSeq(ISODate(t), 1, 7)

\* new Date("YYYY-MM-DD"): a date-only string is UTC midnight of that date
ParseISODate(s) ==
    LET m == 10 * DigitVal(s[6]) + DigitVal(s[7])
        d == 10 * DigitVal(s[9]) + DigitVal(s[10])
    IN  (DaysBefore(m) + d - 1) * DayLen

\* new Date(dateStr + 'Thh:mm:00'): a date-time string without offset is local time
ParseLocal(s, h, m) == ParseISODate(s) + Clock(h, m) - tz

-----------------------------------------------------------------------------
(* Config store *)

\* configs.find(c => c.key === k)?.value || dflt, the value parsed as a number.
\* An empty value is falsy and falls back to the default.  Keys are unique in
\* the table (setConfig is an upsert), so find has one candidate at most.
ConfigValue(cfgs, k, dflt) ==
    LET m == {c \in cfgs : c.key = k}
    IN  IF m = {} THEN dflt
        ELSE LET c == CHOOSE c \in m : TRUE
             IN  IF IsSet(c.value) THEN Val(c.value) ELSE dflt

\* Defaults of the geofence, coordinates in micro-degrees, radius in metres
DefaultOfficeLat == -2979573
DefaultOfficeLng == 104731110
DefaultRadius    == 100

-----------------------------------------------------------------------------
(* Geofence.  Coordinates are integers in micro-degrees; a missing          *)
(* coordinate is None (undefined in the request body: NaN in the formula).  *)

RECURSIVE IsqrtIter(_, _, _)
IsqrtIter(n, lo, hi) ==
    IF lo >= hi THEN lo
    ELSE LET mid == (lo + hi + 1) \div 2
         IN  IF mid * mid <= n THEN IsqrtIter(n, mid, hi) ELSE IsqrtIter(n, lo, mid - 1)

\* floor(sqrt(n)), 0 <= n < 2^31
Isqrt(n) == IsqrtIter(n, 0, 46340)

Abs(x) == IF x < 0 THEN -x ELSE x

\* 10^6 * cos(lat), |lat| < 10 degrees: 1 - x^2/2 with x in radians
CosE6(lat) ==
    LET md == Abs(lat) \div 1000
    IN  1000000 - (((md * md) \div 1000) * 1523) \div 10000

\* The largest coordinate difference the fixed-point formula takes (222 m)
MaxDelta == 2000
\* What DistanceMm answers beyond it: farther than every radius of the model
FarMm == 1000000

\* getDistanceFromLatLonInMeters, in millimetres: the haversine distance with
\* R = 6371 km.  For the short arcs of a geofence, 2*atan2(sqrt a, sqrt(1-a))
\* is sqrt(dLat^2 + cos(lat1)cos(lat2) dLon^2) in radians; one micro-degree of
\* arc is 111.19493 mm.
DistanceMm(lat1, lon1, lat2, lon2) ==
    LET dLat == Abs(lat2 - lat1)
        dLon == Abs(lon2 - lon1)
    IN  IF dLat > MaxDelta \/ dLon > MaxDelta THEN FarMm
        ELSE LET c  == (CosE6(lat1) + CosE6(lat2)) \div 2
                 dx == (dLon * c) \div 1000000
                 q  == Isqrt((dLat * dLat + dx * dx) * 256)     \* 1/16 micro-degree
             IN  6 * q + (9 * q) \div 10 + (q * 4968) \div 100000

\* IsWithinGeofence with the boundary left out: distance < geofenceRadius
IsWithinGeofenceStrict(lat, lng, cfgs) ==
    LET officeLat == ConfigValue(cfgs, "officeLat", DefaultOfficeLat)
        officeLng == ConfigValue(cfgs, "officeLng", DefaultOfficeLng)
        radius    == ConfigValue(cfgs, "geofenceRadius", DefaultRadius)
    IN  IF ~IsSet(lat) \/ ~IsSet(lng) THEN FALSE
        ELSE DistanceMm(Val(lat), Val(lng), officeLat, officeLng) < radius * 1000

\* IsWithinGeofence with the comparison turned round, !(distance > radius):
\* a missing coordinate (NaN > r is false) counts as inside
IsWithinGeofenceNotBeyond(lat, lng, cfgs) ==
    LET officeLat == ConfigValue(cfgs, "officeLat", DefaultOfficeLat)
        officeLng == ConfigValue(cfgs, "officeLng", DefaultOfficeLng)
        radius    == ConfigValue(cfgs, "geofenceRadius", DefaultRadius)
    IN  IF ~IsSet(lat) \/ ~IsSet(lng) THEN TRUE
        ELSE ~(DistanceMm(Val(lat), Val(lng), officeLat, officeLng) > radius * 1000)

\* distance <= geofenceRadius; NaN <= r is false
IsWithinGeofence(lat, lng, cfgs) ==
    LET officeLat == ConfigValue(cfgs, "officeLat", DefaultOfficeLat)
        officeLng == ConfigValue(cfgs, "officeLng", DefaultOfficeLng)
        radius    == ConfigValue(cfgs, "geofenceRadius", DefaultRadius)
    IN  IF ~IsSet(lat) \/ ~IsSet(lng) THEN FALSE
        ELSE DistanceMm(Val(lat), Val(lng), officeLat, officeLng) <= radius * 1000

-----------------------------------------------------------------------------
(* Requests and responses *)

Idle  == [pc |-> "idle"]
NoRes == [op |-> "none", code |-> 0, error |-> "", slot |-> 0, userId |-> 0,
          period |-> None, rows |-> {}, count |-> 0, old |-> {}, status |-> ""]

AllIdle == \A s \in Slots : reqs[s].pc = "idle"

\* A response: the handler (op), the HTTP status (code), the error message and
\* the rows of the body, with the request it answers: its slot, its userId, its
\* period, its status (of an approve); old is the ids the payroll table held for
\* the period when a Generate request arrived, count the number in the message
\* of Generate.
Resp(op, code, error, s) ==
    [NoRes EXCEPT !.op = op, !.code = code, !.error = error, !.slot = s]

\* The response of a generic endpoint (create, update, delete by id): its status
Crud(code) == Resp("crud", code, "", 0)

InFlight(pcs) == Cardinality({s \in Slots : reqs[s].pc \in pcs})

-----------------------------------------------------------------------------
(* Attendance storage *)

GetAttendanceByUser(userId) == {r \in attendance : r.userId = userId}

\* TodayRecords with the date compared as an instant, not cut to its day
TodayRecordsByInstant(userId, today) ==
    {r \in {x \in attendance : x.userId = userId} : r.date = now}

\* existingRecords.find(r => recordDate(r) === today): the candidates; find
\* answers the first in the order of the query, which ties leave open
TodayRecords(userId, today) ==
    {r \in GetAttendanceByUser(userId) : ISODate(r.date) = today}

\* The columns a handler does not set are NULL
BlankAttendance ==
    [id |-> 0, userId |-> 0, date |-> 0, clockIn |-> None, clockOut |-> None,
     clockInLat |-> None, clockInLng |-> None, clockInPhoto |-> None,
     clockOutLat |-> None, clockOutLng |-> None, clockOutPhoto |-> None,
     status |-> "present", approvalStatus |-> "pending",
     isWithinGeofenceIn |-> None, isWithinGeofenceOut |-> None]

\* db.update(attendance).set(data).where(id = ...): the given columns only
SetColumns(row, data) ==
    [f \in DOMAIN row |-> IF f \in DOMAIN data THEN data[f] ELSE row[f]]

UpdateAttendance(id, data) ==
    {IF r.id = id THEN SetColumns(r, data) ELSE r : r \in attendance}

-----------------------------------------------------------------------------
(* The inputs the model draws from *)

MaxDays == 2    \* calendar days the clock runs through

\* The window starts on 2024-01-31, so that it spans two payroll periods
FirstDay == DaysBefore(2) - 1
Days     == FirstDay..(FirstDay + MaxDays - 1)
DayStart(d) == d * DayLen

\* Instants of a day the clock stops at, in UTC: in Palembang (UTC+7) they are
\* 08:15, 17:00 and 01:00 of the next local day
ClockOffsets  == {Clock(1, 15), Clock(10, 0), Clock(18, 0)}
ClockInstants == {DayStart(d) + o : d \in Days, o \in ClockOffsets}
\* The working day alone: 08:15 and 17:00 in Palembang
WorkInstants  == {DayStart(d) + o : d \in Days, o \in {Clock(1, 15), Clock(10, 0)}}
FirstInstant  == DayStart(FirstDay) + Clock(1, 15)

WIB == 7 * HourLen
TimeZones == {0, WIB}

\* Request coordinates: at the office, 111 m east of it, and none sent
AtOffice == [lat |-> Some(DefaultOfficeLat), lng |-> Some(DefaultOfficeLng)]
FarEast  == [lat |-> Some(DefaultOfficeLat), lng |-> Some(DefaultOfficeLng + 1000)]
NoCoords == [lat |-> None, lng |-> None]
Coordinates == {AtOffice, FarEast, NoCoords}
InOrOut     == {AtOffice, NoCoords}

Photos == {Some("photo")}

\* req.body.userId: a user id, or 0 for a missing (falsy) one
UserIdInputs == UserIds \cup {0}

-----------------------------------------------------------------------------
(* POST /api/attendance/clock-in *)

\* The synchronous head of the handler: the userId check and "today"
ClockInRecv(s, userId, at, photo) ==
    /\ reqs[s].pc = "idle"
    /\ nextId.attendance + InFlight({"ci_find", "ci_cfg", "ci_insert"}) <= MaxAttId
    /\ IF userId = 0
       THEN /\ res' = Resp("clockIn", 400, "User ID required", s)
            /\ UNCHANGED reqs
       ELSE /\ reqs' = [reqs EXCEPT ![s] =
                          [pc |-> "ci_find", userId |-> userId, lat |-> at.lat,
                           lng |-> at.lng, photo |-> photo, today |-> ISODate(now)]]
            /\ res' = NoRes
    /\ UNCHANGED <<now, tz, users, positions, attendance, leaves, payroll, config, nextId>>

\* storage.getAttendanceByUser, then the search for today's record
ClockInFind(s) ==
    /\ reqs[s].pc = "ci_find"
    /\ IF TodayRecords(reqs[s].userId, reqs[s].today) # {}
       THEN /\ res' = [Resp("clockIn", 400, "Already clocked in today", s)
                         EXCEPT !.userId = reqs[s].userId]
            /\ reqs' = [reqs EXCEPT ![s] = Idle]
       ELSE /\ reqs' = [reqs EXCEPT ![s].pc = "ci_cfg"]
            /\ res' = NoRes
    /\ UNCHANGED <<now, tz, users, positions, attendance, leaves, payroll, config, nextId>>

\* ClockInConfig with the status set from the time of day: late after 08:10
ClockInConfigLateStatus(s) ==
    /\ reqs[s].pc = "ci_cfg"
    /\ reqs' = [reqs EXCEPT ![s] =
                  [pc |-> "ci_insert",
                   row |-> [BlankAttendance EXCEPT
                              !.userId = reqs[s].userId,
                              !.date = ParseISODate(reqs[s].today),
                              !.clockIn = Some(now),
                              !.clockInLat = reqs[s].lat,
                              !.clockInLng = reqs[s].lng,
                              !.clockInPhoto = reqs[s].photo,
                              !.status = IF now > ParseLocal(reqs[s].today, 8, 10)
                                         THEN "late" ELSE "present",
                              !.approvalStatus = "pending",
                              !.isWithinGeofenceIn =
                                  Some(IsWithinGeofence(reqs[s].lat, reqs[s].lng, config))]]]
    /\ res' = NoRes
    /\ UNCHANGED <<now, tz, users, positions, attendance, leaves, payroll, config, nextId>>

\* storage.getConfigs, then the geofence check and the row to insert
\* (clockIn: new Date() is taken here, when the row is built)
ClockInConfig(s) ==
    /\ reqs[s].pc = "ci_cfg"
    /\ reqs' = [reqs EXCEPT ![s] =
                  [pc |-> "ci_insert",
                   row |-> [BlankAttendance EXCEPT
                              !.userId = reqs[s].userId,
                              !.date = ParseISODate(reqs[s].today),
                              !.clockIn = Some(now),
                              !.clockInLat = reqs[s].lat,
                              !.clockInLng = reqs[s].lng,
                              !.clockInPhoto = reqs[s].photo,
                              !.status = "present",
                              !.approvalStatus = "pending",
                              !.isWithinGeofenceIn =
                                  Some(IsWithinGeofence(reqs[s].lat, reqs[s].lng, config))]]]
    /\ res' = NoRes
    /\ UNCHANGED <<now, tz, users, positions, attendance, leaves, payroll, config, nextId>>

\* storage.createAttendance: the insert and the read of the inserted row
ClockInInsert(s) ==
    /\ reqs[s].pc = "ci_insert"
    /\ attendance' = attendance \cup {[reqs[s].row EXCEPT !.id = nextId.attendance]}
    /\ nextId' = [nextId EXCEPT !.attendance = @ + 1]
    /\ res' = [Resp("clockIn", 201, "", s) EXCEPT
                  !.userId = reqs[s].row.userId,
                  !.rows = {[reqs[s].row EXCEPT !.id = nextId.attendance]}]
    /\ reqs' = [reqs EXCEPT ![s] = Idle]
    /\ UNCHANGED <<now, tz, users, positions, leaves, payroll, config>>

-----------------------------------------------------------------------------
(* POST /api/attendance/clock-out *)

ClockOutRecv(s, userId, at, photo) ==
    /\ reqs[s].pc = "idle"
    /\ IF userId = 0
       THEN /\ res' = Resp("clockOut", 400, "User ID required", s)
            /\ UNCHANGED reqs
       ELSE /\ reqs' = [reqs EXCEPT ![s] =
                          [pc |-> "co_find", userId |-> userId, lat |-> at.lat,
                           lng |-> at.lng, photo |-> photo, today |-> ISODate(now)]]
            /\ res' = NoRes
    /\ UNCHANGED <<now, tz, users, positions, attendance, leaves, payroll, config, nextId>>

\* ClockOutFind without the check of todayRecord.clockOut
ClockOutFindNoCheck(s) ==
    /\ reqs[s].pc = "co_find"
    /\ LET found == {r \in attendance : r.userId = reqs[s].userId
                                        /\ ISODate(r.date) = reqs[s].today}
       IN  IF found = {}
           THEN /\ res' = [Resp("clockOut", 400, "No clock in record found for today", s)
                             EXCEPT !.userId = reqs[s].userId]
                /\ reqs' = [reqs EXCEPT ![s] = Idle]
           ELSE \E todayRecord \in found :
                   /\ reqs' = [reqs EXCEPT ![s] =
                                  [pc |-> "co_cfg", userId |-> reqs[s].userId,
                                   lat |-> reqs[s].lat, lng |-> reqs[s].lng,
                                   photo |-> reqs[s].photo, today |-> reqs[s].today,
                                   id |-> todayRecord.id]]
                   /\ res' = NoRes
    /\ UNCHANGED <<now, tz, users, positions, attendance, leaves, payroll, config, nextId>>

\* storage.getAttendanceByUser, the search for today's record, the two checks
ClockOutFind(s) ==
    /\ reqs[s].pc = "co_find"
    /\ LET found == TodayRecords(reqs[s].userId, reqs[s].today)
       IN  IF found = {}
           THEN /\ res' = [Resp("clockOut", 400, "No clock in record found for today", s)
                             EXCEPT !.userId = reqs[s].userId]
                /\ reqs' = [reqs EXCEPT ![s] = Idle]
           ELSE \E todayRecord \in found :
                   IF IsSet(todayRecord.clockOut)
                   THEN /\ res' = [Resp("clockOut", 400, "Already clocked out today", s)
                                     EXCEPT !.userId = reqs[s].userId]
                        /\ reqs' = [reqs EXCEPT ![s] = Idle]
                   ELSE /\ reqs' = [reqs EXCEPT ![s] =
                                      [pc |-> "co_cfg", userId |-> reqs[s].userId,
                                       lat |-> reqs[s].lat, lng |-> reqs[s].lng,
                                       photo |-> reqs[s].photo, today |-> reqs[s].today,
                                       id |-> todayRecord.id]]
                        /\ res' = NoRes
    /\ UNCHANGED <<now, tz, users, positions, attendance, leaves, payroll, config, nextId>>

\* ClockOutConfig stamping the clock-out with the start of today instead of
\* the time of the request
ClockOutConfigStartOfDay(s) ==
    /\ reqs[s].pc = "co_cfg"
    /\ reqs' = [reqs EXCEPT ![s] =
                  [pc |-> "co_update", userId |-> reqs[s].userId, id |-> reqs[s].id,
                   data |-> [clockOut |-> Some(ParseISODate(reqs[s].today)),
                             clockOutLat |-> reqs[s].lat,
                             clockOutLng |-> reqs[s].lng,
                             clockOutPhoto |-> reqs[s].photo,
                             isWithinGeofenceOut |->
                                 Some(IsWithinGeofence(reqs[s].lat, reqs[s].lng, config))]]]
    /\ res' = NoRes
    /\ UNCHANGED <<now, tz, users, positions, attendance, leaves, payroll, config, nextId>>

\* ClockOutConfig with the geofence of the defaults, the config table not read
ClockOutConfigDefaults(s) ==
    /\ reqs[s].pc = "co_cfg"
    /\ reqs' = [reqs EXCEPT ![s] =
                  [pc |-> "co_update", userId |-> reqs[s].userId, id |-> reqs[s].id,
                   data |-> [clockOut |-> Some(now),
                             clockOutLat |-> reqs[s].lat,
                             clockOutLng |-> reqs[s].lng,
                             clockOutPhoto |-> reqs[s].photo,
                             isWithinGeofenceOut |->
                                 Some(IsWithinGeofence(reqs[s].lat, reqs[s].lng, {}))]]]
    /\ res' = NoRes
    /\ UNCHANGED <<now, tz, users, positions, attendance, leaves, payroll, config, nextId>>

\* storage.getConfigs, then the geofence check and the columns to set
ClockOutConfig(s) ==
    /\ reqs[s].pc = "co_cfg"
    /\ reqs' = [reqs EXCEPT ![s] =
                  [pc |-> "co_update", userId |-> reqs[s].userId, id |-> reqs[s].id,
                   data |-> [clockOut |-> Some(now),
                             clockOutLat |-> reqs[s].lat,
                             clockOutLng |-> reqs[s].lng,
                             clockOutPhoto |-> reqs[s].photo,
                             isWithinGeofenceOut |->
                                 Some(IsWithinGeofence(reqs[s].lat, reqs[s].lng, config))]]]
    /\ res' = NoRes
    /\ UNCHANGED <<now, tz, users, positions, attendance, leaves, payroll, config, nextId>>

\* ClockOutUpdate writing approvalStatus pending with the clock-out columns
ClockOutUpdateResetsApproval(s) ==
    /\ reqs[s].pc = "co_update"
    /\ attendance' = {IF r.id = reqs[s].id
                      THEN [SetColumns(r, reqs[s].data) EXCEPT !.approvalStatus = "pending"]
                      ELSE r : r \in attendance}
    /\ res' = [Resp("clockOut", 200, "", s) EXCEPT
                  !.userId = reqs[s].userId,
                  !.rows = {r \in attendance' : r.id = reqs[s].id}]
    /\ reqs' = [reqs EXCEPT ![s] = Idle]
    /\ UNCHANGED <<now, tz, users, positions, leaves, payroll, config, nextId>>

\* storage.updateAttendance(todayRecord.id, ...): the update and the read back
ClockOutUpdate(s) ==
    /\ reqs[s].pc = "co_update"
    /\ attendance' = UpdateAttendance(reqs[s].id, reqs[s].data)
    /\ res' = [Resp("clockOut", 200, "", s) EXCEPT
                  !.userId = reqs[s].userId,
                  !.rows = {r \in attendance' : r.id = reqs[s].id}]
    /\ reqs' = [reqs EXCEPT ![s] = Idle]
    /\ UNCHANGED <<now, tz, users, positions, leaves, payroll, config, nextId>>

-----------------------------------------------------------------------------
(* The generic attendance endpoints *)

\* POST /api/attendance: the validated body is inserted as it is
PostAttendance(userId, date, clockIn) ==
    /\ nextId.attendance + InFlight({"ci_find", "ci_cfg", "ci_insert"}) <= MaxAttId
    /\ attendance' = attendance \cup
          {[BlankAttendance EXCEPT !.id = nextId.attendance, !.userId = userId,
                                   !.date = date, !.clockIn = clockIn]}
    /\ nextId' = [nextId EXCEPT !.attendance = @ + 1]
    /\ res' = Crud(201)
    /\ UNCHANGED <<now, tz, users, positions, leaves, payroll, config, reqs>>

\* PATCH /api/attendance/:id: any subset of the columns, unvalidated
PatchAttendance(id, data) ==
    /\ attendance' = UpdateAttendance(id, data)
    /\ res' = IF \E r \in attendance : r.id = id
              THEN Crud(200)
              ELSE Crud(404)
    /\ UNCHANGED <<now, tz, users, positions, leaves, payroll, config, nextId, reqs>>

\* DELETE /api/attendance/:id
DeleteAttendance(id) ==
    /\ attendance' = {r \in attendance : r.id # id}
    /\ res' = IF \E r \in attendance : r.id = id
              THEN Crud(200)
              ELSE Crud(404)
    /\ UNCHANGED <<now, tz, users, positions, leaves, payroll, config, nextId, reqs>>

\* The clock moves on
Tick(t) ==
    /\ t > now
    /\ now' = t
    /\ res' = NoRes
    /\ UNCHANGED <<tz, users, positions, attendance, leaves, payroll, config, nextId, reqs>>

-----------------------------------------------------------------------------
(* Payroll arithmetic: POST /api/payroll/generate, the body of the loop *)

RECURSIVE SumOver(_, _)
\* the sum of the function f over the elements of the finite set S
SumOver(f, S) ==
    IF S = {} THEN 0
    ELSE LET x == CHOOSE x \in S : TRUE IN f[x] + SumOver(f, S \ {x})

Min(a, b) == IF a < b THEN a ELSE b
Max(a, b) == IF a > b THEN a ELSE b

\* Defaults of the payroll config: a penalty per minute, rates in 1/10000
DefaultLatePenalty == 2000
DefaultKesehatanBp == 100
DefaultKetenagakerjaanBp == 200

\* The filter of periodAttendance without the test of the approval
QualifiesUnapproved(a, period) ==
    /\ ISOMonth(a.date) = period
    /\ IsSet(a.clockIn)
    /\ IsSet(a.clockOut)

\* The filter of periodAttendance
Qualifies(a, period) ==
    /\ ISOMonth(a.date) = period
    /\ a.approvalStatus = "approved"
    /\ IsSet(a.clockIn)
    /\ IsSet(a.clockOut)

\* LateMinutes counted from the threshold 08:10
LateMinutesFromThreshold(att) ==
    LET dateStr == ISODate(att.date)
        lateThreshold == ParseLocal(dateStr, 8, 10)
    IN  IF Val(att.clockIn) > lateThreshold
        THEN (Val(att.clockIn) - lateThreshold) \div MinuteLen
        ELSE 0

\* LateMinutes with the threshold itself counted late
LateMinutesInclusive(att) ==
    LET dateStr == ISODate(att.date)
        workStart == ParseLocal(dateStr, 8, 0)
        lateThreshold == ParseLocal(dateStr, 8, 10)
    IN  IF Val(att.clockIn) >= lateThreshold
        THEN (Val(att.clockIn) - workStart) \div MinuteLen
        ELSE 0

\* Late minutes of a record: after 08:10, counted from 08:00
LateMinutes(att) ==
    LET dateStr == ISODate(att.date)
        workStart == ParseLocal(dateStr, 8, 0)
        lateThreshold == ParseLocal(dateStr, 8, 10)
    IN  IF Val(att.clockIn) > lateThreshold
        THEN (Val(att.clockIn) - workStart) \div MinuteLen
        ELSE 0

\* DurationMinutes with the break taken from 240 minutes on
DurationMinutesBreakAt240(att) ==
    LET raw == (Val(att.clockOut) - Val(att.clockIn)) \div MinuteLen
        net == IF raw >= 240 THEN raw - 60 ELSE raw
    IN  IF net < 0 THEN 0 ELSE net

\* Work duration of a record in minutes: an hour of break beyond 240, never negative
DurationMinutes(att) ==
    LET raw == (Val(att.clockOut) - Val(att.clockIn)) \div MinuteLen
        net == IF raw > 240 THEN raw - 60 ELSE raw
    IN  IF net < 0 THEN 0 ELSE net

\* OvertimePay counting from the clockIn when that is after 16:00: the
\* overtime of a record never longer than the record
OvertimePayFromClockIn(att, hourlyRate) ==
    LET dateStr == ISODate(att.date)
        workEnd == Max(ParseLocal(dateStr, 16, 0), Val(att.clockIn))
    IN  IF Val(att.clockOut) > workEnd
        THEN LET otMinutes == (Val(att.clockOut) - workEnd) \div MinuteLen
                 firstHour == Min(otMinutes, 60)
                 nextHours == Max(0, otMinutes - 60)
             IN  IF otMinutes > 0
                 THEN (hourlyRate * (3 * firstHour + 4 * nextHours)) \div 120
                 ELSE 0
        ELSE 0

\* Overtime pay of a record: the minutes after 16:00, the first hour at 1.5
\* times the rate and the rest at 2 times, floored.
\* floor(f/60 * 1.5 * rate + n/60 * 2 * rate) = floor(rate * (3f + 4n) / 120):
\* the doubles of the code give this integer for the rates and times the
\* model draws (for some others, 11 minutes at rate 20000 say, the double
\* product falls just below the exact value and its floor is one less)
OvertimePay(att, hourlyRate) ==
    LET dateStr == ISODate(att.date)
        workEnd == ParseLocal(dateStr, 16, 0)
    IN  IF Val(att.clockOut) > workEnd
        THEN LET otMinutes == (Val(att.clockOut) - workEnd) \div MinuteLen
                 firstHour == Min(otMinutes, 60)
                 nextHours == Max(0, otMinutes - 60)
             IN  IF otMinutes > 0
                 THEN (hourlyRate * (3 * firstHour + 4 * nextHours)) \div 120
                 ELSE 0
        ELSE 0

\* HourlyRate falling back to the first position when the employee has none
HourlyRateOfSomePosition(emp, pos) ==
    LET mine == {q \in pos : Some(q.id) = emp.positionId}
    IN  IF mine = {}
        THEN (CHOOSE q \in pos : \A o \in pos : q.id <= o.id).hourlyRate
        ELSE (CHOOSE q \in mine : TRUE).hourlyRate

\* positions.find(p => p.id === emp.positionId)?.hourlyRate || 0
HourlyRate(emp, pos) ==
    LET mine == {q \in pos : Some(q.id) = emp.positionId}
    IN  IF mine = {} THEN 0 ELSE (CHOOSE q \in mine : TRUE).hourlyRate

\* The payroll config read by Generate
PayrollConfig(cfgs) ==
    [latePenaltyPerMinute |-> ConfigValue(cfgs, "latePenaltyPerMinute", DefaultLatePenalty),
     bpjsKesehatanBp |-> ConfigValue(cfgs, "bpjsKesehatanRate", DefaultKesehatanBp),
     bpjsKetenagakerjaanBp |->
         ConfigValue(cfgs, "bpjsKetenagakerjaanRate", DefaultKetenagakerjaanBp)]

\* PayrollOf with the overtime pay floored once, after the records are summed
PayrollOfFloorAfterSum(userId, period, records, hourlyRate, cfg) ==
    LET totalWorkMinutes == SumOver([a \in records |-> DurationMinutes(a)], records)
        totalLateMinutes == SumOver([a \in records |-> LateMinutes(a)], records)
        otUnits == [a \in records |->
                      LET workEnd   == ParseLocal(ISODate(a.date), 16, 0)
                          otMinutes == IF Val(a.clockOut) > workEnd
                                       THEN (Val(a.clockOut) - workEnd) \div MinuteLen
                                       ELSE 0
                      IN  3 * Min(otMinutes, 60) + 4 * Max(0, otMinutes - 60)]
        totalOvertimePay == (hourlyRate * SumOver(otUnits, records)) \div 120
        basicSalary    == (totalWorkMinutes * hourlyRate) \div 60
        lateDeduction  == totalLateMinutes * cfg.latePenaltyPerMinute
        bpjsDeduction  ==
            (basicSalary * (cfg.bpjsKesehatanBp + cfg.bpjsKetenagakerjaanBp)) \div 10000
        pph21Deduction == (basicSalary * 5) \div 100
    IN  [id |-> 0, userId |-> userId, period |-> period,
         basicSalary |-> basicSalary, overtimePay |-> totalOvertimePay, bonus |-> 0,
         lateDeduction |-> lateDeduction, bpjsDeduction |-> bpjsDeduction,
         pph21Deduction |-> pph21Deduction, otherDeduction |-> 0,
         totalNet |-> basicSalary + totalOvertimePay - lateDeduction
                        - bpjsDeduction - pph21Deduction,
         status |-> "draft"]

\* The row of one employee from the records that count, before its insert
PayrollOf(userId, period, records, hourlyRate, cfg) ==
    LET totalWorkMinutes == SumOver([a \in records |-> DurationMinutes(a)], records)
        totalLateMinutes == SumOver([a \in records |-> LateMinutes(a)], records)
        totalOvertimePay == SumOver([a \in records |-> OvertimePay(a, hourlyRate)], records)
        basicSalary    == (totalWorkMinutes * hourlyRate) \div 60
        lateDeduction  == totalLateMinutes * cfg.latePenaltyPerMinute
        bpjsDeduction  ==
            (basicSalary * (cfg.bpjsKesehatanBp + cfg.bpjsKetenagakerjaanBp)) \div 10000
        pph21Deduction == (basicSalary * 5) \div 100
    IN  [id |-> 0, userId |-> userId, period |-> period,
         basicSalary |-> basicSalary, overtimePay |-> totalOvertimePay, bonus |-> 0,
         lateDeduction |-> lateDeduction, bpjsDeduction |-> bpjsDeduction,
         pph21Deduction |-> pph21Deduction, otherDeduction |-> 0,
         totalNet |-> basicSalary + totalOvertimePay - lateDeduction
                        - bpjsDeduction - pph21Deduction,
         status |-> "draft"]

\* One iteration of the loop up to its insert: the employee's attendance of the
\* period (allAttendance as read by getAttendanceByUser) made into a row
ComputePayroll(emp, period, allAttendance, pos, cfg) ==
    PayrollOf(emp.id, period, {a \in allAttendance : Qualifies(a, period)},
              HourlyRate(emp, pos), cfg)

-----------------------------------------------------------------------------
(* POST /api/payroll/generate *)

\* The test without the anchors: /\d{4}-\d{2}/ finds a match anywhere
PeriodRegexUnanchored(p) ==
    \E k \in 0..(Len(p) - 7) :
        /\ \A i \in 1..4 : IsDigit(p[k + i])
        /\ p[k + 5] = "-"
        /\ IsDigit(p[k + 6]) /\ IsDigit(p[k + 7])

\* /^\d{4}-\d{2}$/.test(period)
PeriodRegexTest(p) ==
    /\ Len(p) = 7
    /\ \A i \in 1..4 : IsDigit(p[i])
    /\ p[5] = "-"
    /\ IsDigit(p[6]) /\ IsDigit(p[7])

\* All users taken for employees
EmployeesUnfiltered(us) == us

\* users.filter(u => u.role !== 'admin')
Employees(us) == {u \in us : u.role # "admin"}

\* The orders a query may list a set of rows in (ORDER BY name: names are any)
Orderings(S) ==
    {f \in [1..Cardinality(S) -> S] : \A i, j \in 1..Cardinality(S) : f[i] = f[j] => i = j}

RECURSIVE SeqToSet(_)
SeqToSet(q) == IF q = <<>> THEN {} ELSE {Head(q)} \cup SeqToSet(Tail(q))

\* deletePayrollsByPeriod leaving the final rows
DeleteDraftsByPeriod(period) ==
    {r \in payroll : ~(r.period = period /\ r.status = "draft")}

\* deletePayrollsByPeriod deleting nothing
DeleteNoPayrolls(period) == payroll

\* storage.deletePayrollsByPeriod: the table after DELETE ... WHERE period = ?
\* deletePayrollsByPeriod without its where clause: every row goes
DeleteAllPeriods(period) == {r \in payroll : FALSE}

DeletePayrollsByPeriod(period) == {r \in payroll : r.period # period}

GeneratePcs == {"gen_delete", "gen_users", "gen_positions", "gen_configs",
                "gen_attendance", "gen_insert"}

\* The synchronous head of the handler: the check of the period
GenerateRecv(s, period) ==
    /\ reqs[s].pc = "idle"
    /\ nextId.payroll + MaxUsers * (1 + InFlight(GeneratePcs)) - 1 <= MaxPayId
    /\ IF ~IsSet(period) \/ ~PeriodRegexTest(period)
       THEN /\ res' = [Resp("generate", 400, "Valid period (YYYY-MM) required", s)
                         EXCEPT !.period = period]
            /\ UNCHANGED reqs
       ELSE /\ reqs' = [reqs EXCEPT ![s] =
                          [pc |-> "gen_delete", period |-> period,
                           old |-> {r \in payroll : r.period = period}]]
            /\ res' = NoRes
    /\ UNCHANGED <<now, tz, users, positions, attendance, leaves, payroll, config, nextId>>

\* storage.deletePayrollsByPeriod(period)
GenerateDelete(s) ==
    /\ reqs[s].pc = "gen_delete"
    /\ payroll' = DeletePayrollsByPeriod(reqs[s].period)
    /\ reqs' = [reqs EXCEPT ![s].pc = "gen_users"]
    /\ res' = NoRes
    /\ UNCHANGED <<now, tz, users, positions, attendance, leaves, config, nextId>>

\* storage.getUsers(), then the filter of the employees
GenerateUsers(s) ==
    /\ reqs[s].pc = "gen_users"
    /\ \E employees \in Orderings(Employees(users)) :
          reqs' = [reqs EXCEPT ![s] =
                     [pc |-> "gen_positions", period |-> reqs[s].period,
                      old |-> reqs[s].old, employees |-> employees]]
    /\ res' = NoRes
    /\ UNCHANGED <<now, tz, users, positions, attendance, leaves, payroll, config, nextId>>

\* storage.getPositions()
GeneratePositions(s) ==
    /\ reqs[s].pc = "gen_positions"
    /\ reqs' = [reqs EXCEPT ![s] =
                  [pc |-> "gen_configs", period |-> reqs[s].period, old |-> reqs[s].old,
                   employees |-> reqs[s].employees, positions |-> positions]]
    /\ res' = NoRes
    /\ UNCHANGED <<now, tz, users, positions, attendance, leaves, payroll, config, nextId>>

\* The response of a Generate that ran through
Generated(s, payrolls) ==
    [Resp("generate", 201, "", s) EXCEPT
        !.period = reqs[s].period, !.rows = SeqToSet(payrolls),
        !.count = Len(payrolls), !.old = reqs[s].old]

\* storage.getConfigs(), then the loop is entered: with no employee the
\* response follows at once
GenerateConfigs(s) ==
    /\ reqs[s].pc = "gen_configs"
    /\ IF reqs[s].employees = <<>>
       THEN /\ res' = Generated(s, <<>>)
            /\ reqs' = [reqs EXCEPT ![s] = Idle]
       ELSE /\ reqs' = [reqs EXCEPT ![s] =
                          [pc |-> "gen_attendance", period |-> reqs[s].period,
                           old |-> reqs[s].old, employees |-> reqs[s].employees,
                           positions |-> reqs[s].positions,
                           cfg |-> PayrollConfig(config), i |-> 1, payrolls |-> <<>>]]
            /\ res' = NoRes
    /\ UNCHANGED <<now, tz, users, positions, attendance, leaves, payroll, config, nextId>>

\* storage.getAttendanceByUser(emp.id), then the row of the employee
GenerateAttendance(s) ==
    /\ reqs[s].pc = "gen_attendance"
    /\ LET emp == reqs[s].employees[reqs[s].i]
       IN  reqs' = [reqs EXCEPT ![s] =
                      [pc |-> "gen_insert", period |-> reqs[s].period,
                       old |-> reqs[s].old, employees |-> reqs[s].employees,
                       positions |-> reqs[s].positions, cfg |-> reqs[s].cfg,
                       i |-> reqs[s].i, payrolls |-> reqs[s].payrolls,
                       row |-> ComputePayroll(emp, reqs[s].period,
                                              GetAttendanceByUser(emp.id),
                                              reqs[s].positions, reqs[s].cfg)]]
    /\ res' = NoRes
    /\ UNCHANGED <<now, tz, users, positions, attendance, leaves, payroll, config, nextId>>

\* GenerateInsert replacing the row the table holds for the user and period
GenerateInsertReplacing(s) ==
    /\ reqs[s].pc = "gen_insert"
    /\ LET row == [reqs[s].row EXCEPT !.id = nextId.payroll]
           payrolls == Append(reqs[s].payrolls, row)
       IN  /\ payroll' = {r \in payroll : ~(r.userId = row.userId /\ r.period = row.period)}
                             \cup {row}
           /\ nextId' = [nextId EXCEPT !.payroll = @ + 1]
           /\ IF reqs[s].i < Len(reqs[s].employees)
              THEN /\ reqs' = [reqs EXCEPT ![s] =
                                 [pc |-> "gen_attendance", period |-> reqs[s].period,
                                  old |-> reqs[s].old, employees |-> reqs[s].employees,
                                  positions |-> reqs[s].positions, cfg |-> reqs[s].cfg,
                                  i |-> reqs[s].i + 1, payrolls |-> payrolls]]
                   /\ res' = NoRes
              ELSE /\ res' = Generated(s, payrolls)
                   /\ reqs' = [reqs EXCEPT ![s] = Idle]
    /\ UNCHANGED <<now, tz, users, positions, attendance, leaves, config>>

\* GenerateInsert adding the bonus-free net pay of the row the period held for
\* the user to the new one (a regeneration that tops up instead of replacing)
GenerateInsertAccumulating(s) ==
    /\ reqs[s].pc = "gen_insert"
    /\ LET before == SumOver([o \in reqs[s].old |->
                                IF o.userId = reqs[s].row.userId THEN o.basicSalary ELSE 0],
                             reqs[s].old)
           row == [reqs[s].row EXCEPT !.id = nextId.payroll,
                                      !.basicSalary = @ + before, !.totalNet = @ + before]
           payrolls == Append(reqs[s].payrolls, row)
       IN  /\ payroll' = payroll \cup {row}
           /\ nextId' = [nextId EXCEPT !.payroll = @ + 1]
           /\ IF reqs[s].i < Len(reqs[s].employees)
              THEN /\ reqs' = [reqs EXCEPT ![s] =
                                 [pc |-> "gen_attendance", period |-> reqs[s].period,
                                  old |-> reqs[s].old, employees |-> reqs[s].employees,
                                  positions |-> reqs[s].positions, cfg |-> reqs[s].cfg,
                                  i |-> reqs[s].i + 1, payrolls |-> payrolls]]
                   /\ res' = NoRes
              ELSE /\ res' = Generated(s, payrolls)
                   /\ reqs' = [reqs EXCEPT ![s] = Idle]
    /\ UNCHANGED <<now, tz, users, positions, attendance, leaves, config>>

\* storage.createPayroll(row), then the next employee or the response
GenerateInsert(s) ==
    /\ reqs[s].pc = "gen_insert"
    /\ LET row == [reqs[s].row EXCEPT !.id = nextId.payroll]
           payrolls == Append(reqs[s].payrolls, row)
       IN  /\ payroll' = payroll \cup {row}
           /\ nextId' = [nextId EXCEPT !.payroll = @ + 1]
           /\ IF reqs[s].i < Len(reqs[s].employees)
              THEN /\ reqs' = [reqs EXCEPT ![s] =
                                 [pc |-> "gen_attendance", period |-> reqs[s].period,
                                  old |-> reqs[s].old, employees |-> reqs[s].employees,
                                  positions |-> reqs[s].positions, cfg |-> reqs[s].cfg,
                                  i |-> reqs[s].i + 1, payrolls |-> payrolls]]
                   /\ res' = NoRes
              ELSE /\ res' = Generated(s, payrolls)
                   /\ reqs' = [reqs EXCEPT ![s] = Idle]
    /\ UNCHANGED <<now, tz, users, positions, attendance, leaves, config>>

\* A failing insert that takes back the rows the request has inserted
GenerateInsertFailsRollback(s) ==
    /\ reqs[s].pc = "gen_insert"
    /\ payroll' = payroll \ SeqToSet(reqs[s].payrolls)
    /\ res' = [Resp("generate", 500, "Internal server error", s) EXCEPT
                  !.period = reqs[s].period, !.rows = SeqToSet(reqs[s].payrolls),
                  !.userId = reqs[s].row.userId, !.old = reqs[s].old]
    /\ reqs' = [reqs EXCEPT ![s] = Idle]
    /\ UNCHANGED <<now, tz, users, positions, attendance, leaves, config, nextId>>

\* storage.createPayroll(row) throws: the rejection leaves the loop and the
\* handler, asyncHandler hands it to the error handler, which answers 500.
\* Nothing is written.  (rows: the rows the request inserted before, userId:
\* the employee whose insert failed.)
GenerateInsertFails(s) ==
    /\ reqs[s].pc = "gen_insert"
    /\ res' = [Resp("generate", 500, "Internal server error", s) EXCEPT
                  !.period = reqs[s].period, !.rows = SeqToSet(reqs[s].payrolls),
                  !.userId = reqs[s].row.userId, !.old = reqs[s].old]
    /\ reqs' = [reqs EXCEPT ![s] = Idle]
    /\ UNCHANGED <<now, tz, users, positions, attendance, leaves, payroll, config, nextId>>

-----------------------------------------------------------------------------
(* The payroll, user and config endpoints *)

UpdatePayroll(id, data) ==
    {IF r.id = id THEN SetColumns(r, data) ELSE r : r \in payroll}

\* POST /api/payroll/:id/finalize
FinalizePayroll(id) ==
    /\ payroll' = UpdatePayroll(id, [status |-> "final"])
    /\ res' = IF \E r \in payroll : r.id = id
              THEN Crud(200)
              ELSE Crud(404)
    /\ UNCHANGED <<now, tz, users, positions, attendance, leaves, config, nextId, reqs>>

\* PATCH /api/payroll/:id: any subset of the columns, unvalidated
PatchPayroll(id, data) ==
    /\ payroll' = UpdatePayroll(id, data)
    /\ res' = IF \E r \in payroll : r.id = id
              THEN Crud(200)
              ELSE Crud(404)
    /\ UNCHANGED <<now, tz, users, positions, attendance, leaves, config, nextId, reqs>>

\* POST /api/users (the body validated, its email not yet registered)
PostUser(role, positionId) ==
    /\ nextId.users <= MaxUsers
    /\ users' = users \cup {[id |-> nextId.users, role |-> role, positionId |-> positionId]}
    /\ nextId' = [nextId EXCEPT !.users = @ + 1]
    /\ res' = Crud(201)
    /\ UNCHANGED <<now, tz, positions, attendance, leaves, payroll, config, reqs>>

\* PATCH /api/users/:id
PatchUser(id, data) ==
    /\ users' = {IF u.id = id THEN SetColumns(u, data) ELSE u : u \in users}
    /\ res' = IF \E u \in users : u.id = id
              THEN Crud(200)
              ELSE Crud(404)
    /\ UNCHANGED <<now, tz, positions, attendance, leaves, payroll, config, nextId, reqs>>

\* DELETE /api/users/:id
DeleteUser(id) ==
    /\ users' = {u \in users : u.id # id}
    /\ res' = IF \E u \in users : u.id = id
              THEN Crud(200)
              ELSE Crud(404)
    /\ UNCHANGED <<now, tz, positions, attendance, leaves, payroll, config, nextId, reqs>>

\* setConfig inserting an entry whether or not the key has one
InsertConfig(key, value) ==
    config \cup {[id |-> nextId.config, key |-> key, value |-> value]}

\* storage.setConfig: update the entries of the key, or insert one
UpsertConfig(key, value) ==
    IF \E c \in config : c.key = key
    THEN {IF c.key = key THEN [c EXCEPT !.value = value] ELSE c : c \in config}
    ELSE config \cup {[id |-> nextId.config, key |-> key, value |-> value]}

\* POST /api/config with the body {key, value}; a missing key is "", a missing
\* (falsy) value is stored as '' (None).  The answer is the entry read back.
SetConfig(key, value) ==
    /\ IF key = ""
       THEN /\ res' = Resp("setConfig", 400, "Config key required", 0)
            /\ UNCHANGED <<config, nextId>>
       ELSE /\ nextId.config <= MaxConfigId \/ \E c \in config : c.key = key
            /\ config' = UpsertConfig(key, value)
            /\ nextId' = IF \E c \in config : c.key = key
                         THEN nextId
                         ELSE [nextId EXCEPT !.config = @ + 1]
            /\ res' = [Resp("setConfig", 200, "", 0) EXCEPT
                          !.rows = {c \in config' : c.key = key}]
    /\ UNCHANGED <<now, tz, users, positions, attendance, leaves, payroll, reqs>>

\* POST /api/config/bulk: the entries of the body, set one after the other
BulkConfigRecv(s, entries) ==
    /\ reqs[s].pc = "idle"
    /\ nextId.config + Len(entries) - 1 <= MaxConfigId
    /\ reqs' = [reqs EXCEPT ![s] = [pc |-> "bulk", entries |-> entries]]
    /\ res' = NoRes
    /\ UNCHANGED <<now, tz, users, positions, attendance, leaves, payroll, config, nextId>>

\* One turn of the loop (storage.setConfig), the answer after the last
BulkConfigSet(s) ==
    /\ reqs[s].pc = "bulk"
    /\ LET key   == Head(reqs[s].entries)[1]
           value == Head(reqs[s].entries)[2]
           rest  == Tail(reqs[s].entries)
       IN  /\ config' = UpsertConfig(key, value)
           /\ nextId' = IF \E c \in config : c.key = key THEN nextId
                        ELSE [nextId EXCEPT !.config = @ + 1]
           /\ IF rest = <<>>
              THEN /\ reqs' = [reqs EXCEPT ![s] = Idle]
                   /\ res' = Resp("bulkConfig", 200, "", s)
              ELSE /\ reqs' = [reqs EXCEPT ![s].entries = rest]
                   /\ res' = NoRes
    /\ UNCHANGED <<now, tz, users, positions, attendance, leaves, payroll>>

\* DELETE /api/config/:key
DeleteConfig(key) ==
    /\ config' = {c \in config : c.key # key}
    /\ res' = IF \E c \in config : c.key = key
              THEN Resp("deleteConfig", 200, "", 0)
              ELSE Resp("deleteConfig", 404, "Config key not found", 0)
    /\ UNCHANGED <<now, tz, users, positions, attendance, leaves, payroll, nextId, reqs>>

-----------------------------------------------------------------------------
(* Initial states *)

\* The demo data: an employee with a position and an admin
DemoUsers == {[id |-> 1, role |-> "employee", positionId |-> Some(1)],
              [id |-> 2, role |-> "admin", positionId |-> None]}
DemoPositions == {[id |-> 1, hourlyRate |-> 20000]}

FirstIds == [users |-> 3, positions |-> 2, attendance |-> 1,
             leaves |-> 1, payroll |-> 1, config |-> 1]

InitAttendance ==
    /\ now = FirstInstant
    /\ tz = WIB
    /\ users = DemoUsers
    /\ positions = DemoPositions
    /\ attendance = {}
    /\ leaves = {}
    /\ payroll = {}
    /\ config = {}
    /\ nextId = FirstIds
    /\ reqs = [s \in Slots |-> Idle]
    /\ res = NoRes

\* The bodies PATCH /api/attendance/:id is sent
AttendancePatches ==
    {[approvalStatus |-> "approved"]} \cup {[date |-> DayStart(d)] : d \in Days}

AttendanceIds == 1..MaxAttId

\* The attendance recorder and the attendance endpoints, one request at a time
NextAttendance ==
    \/ \E t \in WorkInstants : Tick(t)
    \/ \E u \in UserIdInputs, at \in {AtOffice}, ph \in Photos :
          AllIdle /\ ClockInRecv(1, u, at, ph)
    \/ ClockInFind(1)
    \/ ClockInConfig(1)
    \/ ClockInInsert(1)
    \/ \E u \in UserIdInputs, at \in {AtOffice}, ph \in Photos :
          AllIdle /\ ClockOutRecv(1, u, at, ph)
    \/ ClockOutFind(1)
    \/ ClockOutConfig(1)
    \/ ClockOutUpdate(1)
    \/ \E u \in UserIds, d \in Days : AllIdle /\ PostAttendance(u, DayStart(d), None)
    \/ \E id \in AttendanceIds, data \in AttendancePatches :
          AllIdle /\ PatchAttendance(id, data)
    \/ \E id \in AttendanceIds : AllIdle /\ DeleteAttendance(id)

SpecAttendance == InitAttendance /\ [][NextAttendance]_vars

\* The steps of the clock-in and clock-out requests of one user interleaved,
\* with the generic endpoints
NextAttendanceConc ==
    \/ \E d \in Days : Tick(DayStart(d) + Clock(1, 15))
    \/ \E s \in Slots, u \in {0, 1}, ph \in Photos : ClockInRecv(s, u, AtOffice, ph)
    \/ \E s \in Slots : ClockInFind(s)
    \/ \E s \in Slots : ClockInConfig(s)
    \/ \E s \in Slots : ClockInInsert(s)
    \/ \E s \in Slots, u \in {0, 1}, ph \in Photos : ClockOutRecv(s, u, AtOffice, ph)
    \/ \E s \in Slots : ClockOutFind(s)
    \/ \E s \in Slots : ClockOutConfig(s)
    \/ \E s \in Slots : ClockOutUpdate(s)
    \/ \E u \in UserIds, d \in Days : PostAttendance(u, DayStart(d), None)
    \/ \E id \in AttendanceIds : PatchAttendance(id, [approvalStatus |-> "approved"])
    \/ \E id \in AttendanceIds : DeleteAttendance(id)

SpecAttendanceConc == InitAttendance /\ [][NextAttendanceConc]_vars

-----------------------------------------------------------------------------
(* Claims about the attendance recorder *)

SameUserAndDay(a, b) == a.userId = b.userId /\ ISODate(a.date) = ISODate(b.date)

\* C1: in every reachable state the attendance table holds at most one record
\* per (userId, date), whatever wrote the records: clock-in, clock-out, the
\* generic create and update, and clock-in requests whose steps interleave.
C1_OneRecordPerUserAndDate ==
    \A a \in attendance, b \in attendance : SameUserAndDay(a, b) => a = b

\* C1, the clock-in operation alone: no two records that clock-in wrote (they
\* carry a clockIn) are of the same user and date.
C1_OneClockInPerUserAndDate ==
    \A a \in attendance, b \in attendance :
        (IsSet(a.clockIn) /\ IsSet(b.clockIn) /\ SameUserAndDay(a, b)) => a = b

\* C2: a clock-in whose search runs when a record of (userId, today) exists
\* fails with 400 "Already clocked in today", inserts nothing and leaves every
\* attendance record as it is; so the second of two clock-ins of a day fails.
C2_ClockInTwiceFails ==
    [][\A s \in Slots :
          (/\ reqs[s].pc = "ci_find"
           /\ reqs'[s] # reqs[s]
           /\ \E r \in attendance : /\ r.userId = reqs[s].userId
                                    /\ ISODate(r.date) = reqs[s].today)
          => (/\ res'.op = "clockIn" /\ res'.code = 400
              /\ res'.error = "Already clocked in today"
              /\ reqs'[s] = Idle
              /\ attendance' = attendance
              /\ nextId' = nextId)]_vars

\* A second clock-in of the day was refused: the record the first one wrote is there.
C2_Witness ==
    /\ res.op = "clockIn" /\ res.code = 400 /\ res.error = "Already clocked in today"
    /\ \E r \in attendance : /\ r.userId = res.userId /\ IsSet(r.clockIn)
                             /\ r.clockIn # Some(now)
                             /\ ISODate(r.date) = ISODate(now)

\* C3: a clock-out whose search finds no record of (userId, today) fails with
\* 400 "No clock in record found for today"; one that finds today's record with
\* clockOut set fails with 400 "Already clocked out today"; neither changes an
\* attendance record, and the update of a clock-out never touches a record
\* whose clockOut is set.
C3_ClockOutFailures ==
    [][\A s \in Slots :
          LET mine == {r \in attendance : /\ r.userId = reqs[s].userId
                                          /\ ISODate(r.date) = reqs[s].today}
          IN  /\ (reqs[s].pc = "co_find" /\ reqs'[s] # reqs[s] /\ mine = {})
                   => (/\ res'.op = "clockOut" /\ res'.code = 400
                       /\ res'.error = "No clock in record found for today"
                       /\ reqs'[s] = Idle
                       /\ attendance' = attendance)
              /\ (/\ reqs[s].pc = "co_find" /\ reqs'[s] # reqs[s] /\ mine # {}
                  /\ \A r \in mine : IsSet(r.clockOut))
                   => (/\ res'.op = "clockOut" /\ res'.code = 400
                       /\ res'.error = "Already clocked out today"
                       /\ reqs'[s] = Idle
                       /\ attendance' = attendance)
              /\ (reqs[s].pc = "co_update" /\ reqs'[s] # reqs[s])
                   => \A r \in attendance : IsSet(r.clockOut) => r \in attendance']_vars

\* A second clock-out of the day was refused: the recorded clockOut is there.
C3_Witness ==
    /\ res.op = "clockOut" /\ res.code = 400 /\ res.error = "Already clocked out today"
    /\ \E r \in attendance : /\ r.userId = res.userId /\ IsSet(r.clockIn)
                             /\ IsSet(r.clockOut) /\ r.clockOut # Some(now)

-----------------------------------------------------------------------------
(* The payroll generator with the endpoints around it, one request at a time *)

Jan == <<"2", "0", "2", "4", "-", "0", "1">>
Feb == <<"2", "0", "2", "4", "-", "0", "2">>

\* req.body.period: two periods, none, "2024-1" and "2024-01-31"
PeriodInputs ==
    {Jan, Feb, None, <<"2", "0", "2", "4", "-", "1">>, Jan \o <<"-", "3", "1">>}

\* A complete record of a user: the local times of clockIn and clockOut on a day
WorkedDay(id, userId, d, approvalStatus, inAt, outAt) ==
    [BlankAttendance EXCEPT
        !.id = id, !.userId = userId, !.date = DayStart(d),
        !.clockIn = Some(DayStart(d) + inAt - WIB),
        !.clockOut = Some(DayStart(d) + outAt - WIB),
        !.approvalStatus = approvalStatus]

InitPayroll ==
    /\ now = FirstInstant
    /\ tz = WIB
    /\ users = DemoUsers
    /\ positions = DemoPositions
    /\ attendance = {WorkedDay(1, 1, FirstDay, "approved", Clock(8, 15), Clock(17, 0)),
                     WorkedDay(2, 1, FirstDay + 1, "pending", Clock(8, 0), Clock(16, 0))}
    /\ leaves = {}
    /\ payroll = {}
    /\ config = {}
    /\ nextId = [FirstIds EXCEPT !.attendance = 3]
    /\ reqs = [s \in Slots |-> Idle]
    /\ res = NoRes

PayrollIds == 1..MaxPayId

NextPayroll ==
    \/ \E period \in PeriodInputs : AllIdle /\ GenerateRecv(1, period)
    \/ GenerateDelete(1)
    \/ GenerateUsers(1)
    \/ GeneratePositions(1)
    \/ GenerateConfigs(1)
    \/ GenerateAttendance(1)
    \/ GenerateInsert(1)
    \/ \E id \in PayrollIds : AllIdle /\ FinalizePayroll(id)
    \/ \E id \in PayrollIds : AllIdle /\ PatchPayroll(id, [bonus |-> 50000])
    \/ \E id \in UserIds, role \in {"admin", "employee"} :
          AllIdle /\ PatchUser(id, [role |-> role])
    \/ \E id \in UserIds : AllIdle /\ DeleteUser(id)
    \/ \E id \in AttendanceIds : AllIdle /\ PatchAttendance(id, [approvalStatus |-> "approved"])

SpecPayroll == InitPayroll /\ [][NextPayroll]_vars

-----------------------------------------------------------------------------
(* Claims about Generate, requests not overlapping *)

\* The last step answered a Generate that ran through
GenerateDone == res.op = "generate" /\ res.code = 201

RowsOfPeriod(period) == {r \in payroll : r.period = period}

\* C4: when a Generate(period) has run through, the period holds exactly one
\* row for every user whose role is not admin and none for an admin; each row
\* is a draft with bonus 0 and otherDeduction 0; the rows of the response are
\* the rows of the period, and the count of the message is the number of
\* users that are not admins.
C4_OneDraftRowPerEmployee ==
    GenerateDone =>
        /\ \A u \in users :
              Cardinality({r \in RowsOfPeriod(res.period) : r.userId = u.id})
                  = IF u.role = "admin" THEN 0 ELSE 1
        /\ \A r \in RowsOfPeriod(res.period) :
              r.status = "draft" /\ r.bonus = 0 /\ r.otherDeduction = 0
        /\ res.rows = RowsOfPeriod(res.period)
        /\ res.count = Cardinality({u \in users : u.role # "admin"})

\* A Generate ran through with an admin and an employee in the table.
C4_Witness ==
    /\ GenerateDone
    /\ \E u \in users : u.role = "admin"
    /\ \E u \in users : u.role # "admin"
    /\ res.count >= 1

C6_OneRowPerUserAndPeriod ==
    \A a \in payroll, b \in payroll :
        (a.userId = b.userId /\ a.period = b.period) => a = b

\* A period was generated again after a row of it was finalized, and the user
\* has rows in two periods.
C6_Witness ==
    /\ GenerateDone
    /\ \E o \in res.old : o.status = "final" /\ \E r \in res.rows : r.userId = o.userId
    /\ \E a \in payroll, b \in payroll : a.userId = b.userId /\ a.period # b.period

\* "YYYY-MM": seven characters, four digits, a hyphen, two digits
IsYearMonth(p) ==
    /\ DOMAIN p = 1..7
    /\ \A i \in {1, 2, 3, 4, 6, 7} : p[i] \in {DigitChars[k] : k \in 1..10}
    /\ p[5] = "-"

\* C7: a Generate whose period is missing or is not of the form YYYY-MM is
\* answered 400 "Valid period (YYYY-MM) required" by the step that receives
\* it: no storage call is issued, no payroll row is deleted or inserted.
C7_InvalidPeriodRejected ==
    [][(res'.op = "generate" /\ ~IsYearMonth(res'.period))
          => (/\ res'.code = 400
              /\ res'.error = "Valid period (YYYY-MM) required"
              /\ AllIdle /\ reqs' = reqs
              /\ payroll' = payroll
              /\ nextId' = nextId)]_vars

\* A period that is not empty was refused while the table held rows.
C7_Witness ==
    /\ res.op = "generate" /\ res.code = 400
    /\ res.period # None
    /\ payroll # {}

-----------------------------------------------------------------------------
(* The payroll arithmetic over the inputs: Generate on tables drawn at Init *)

\* Local times of day of a clockIn and of a clockOut
InTimes  == {Clock(8, 0), Clock(8, 10), Clock(8, 10) + 1, Clock(8, 11), Clock(8, 15),
             Clock(16, 30)}
OutTimes == {Clock(7, 0), Clock(12, 15), Clock(12, 16), Clock(16, 0), Clock(16, 0) + 1,
             Clock(16, 1), Clock(17, 0), Clock(18, 30)}

\* The instant of a local time of day on the day d, in the zone z
LocalOn(d, at, z) == Some(DayStart(d) + at - z)

\* The records one user may have of one day, clockIn and clockOut set or not
CalcRecords(id, userId, z) ==
    UNION {
        {[BlankAttendance EXCEPT !.id = id, !.userId = userId, !.date = DayStart(d),
                                 !.clockIn = ci, !.clockOut = co, !.approvalStatus = ap] :
            ci \in {None} \cup {LocalOn(d, t, z) : t \in InTimes},
            co \in {None} \cup {LocalOn(d, t, z) : t \in OutTimes},
            ap \in {"approved", "pending", "rejected"}} : d \in Days}

\* A second record of the user: an approved day of January, 08:30 to 17:01
\* (30 minutes late, 511 minutes long, 61 minutes of overtime)
SecondRecord(z) ==
    [BlankAttendance EXCEPT !.id = 2, !.userId = 1, !.date = DayStart(FirstDay),
                            !.clockIn = LocalOn(FirstDay, Clock(8, 30), z),
                            !.clockOut = LocalOn(FirstDay, Clock(17, 1), z),
                            !.approvalStatus = "approved"]

CalcRates == {20000, 12500}

InitCalc ==
    /\ now = FirstInstant
    /\ tz \in TimeZones
    /\ \E rate \in CalcRates, pos \in {Some(1), None} :
          /\ pos = None => rate = 20000
          /\ users = {[id |-> 1, role |-> "employee", positionId |-> pos],
                      [id |-> 2, role |-> "admin", positionId |-> None]}
          /\ positions = {[id |-> 1, hourlyRate |-> rate]}
    /\ \E first \in CalcRecords(1, 1, tz), more \in {{}, {SecondRecord(tz)}} :
          attendance = {first} \cup more
    /\ leaves = {}
    /\ payroll = {}
    /\ config \in {{},
                    {[id |-> 1, key |-> "latePenaltyPerMinute", value |-> Some(1000)]},
                    {[id |-> 1, key |-> "latePenaltyPerMinute", value |-> Some(1000)],
                     [id |-> 2, key |-> "bpjsKesehatanRate", value |-> Some(200)]}}
    /\ nextId = [FirstIds EXCEPT !.attendance = 3, !.config = 3]
    /\ reqs = [s \in Slots |-> Idle]
    /\ res = NoRes

NextCalc ==
    \/ AllIdle /\ GenerateRecv(1, Jan)
    \/ GenerateDelete(1)
    \/ GenerateUsers(1)
    \/ GeneratePositions(1)
    \/ GenerateConfigs(1)
    \/ GenerateAttendance(1)
    \/ GenerateInsert(1)

SpecCalc == InitCalc /\ [][NextCalc]_vars

\* C8: an attendance record counts for the row generated for its user and a
\* period if and only if its date is in the period, it is approved and both
\* clockIn and clockOut are set: the row is the one computed from exactly these
\* records, so a pending, rejected, clock-in-only or other-period record
\* changes no field of it.
C8_OnlyQualifyingRecordsCount ==
    GenerateDone =>
        \A r \in res.rows :
            \E u \in users :
                /\ u.id = r.userId
                /\ [r EXCEPT !.id = 0] =
                      PayrollOf(u.id, res.period,
                                {a \in attendance :
                                    /\ a.userId = u.id
                                    /\ ISOMonth(a.date) = res.period
                                    /\ a.approvalStatus = "approved"
                                    /\ a.clockIn # None /\ a.clockOut # None},
                                HourlyRate(u, positions), PayrollConfig(config))

\* A row was generated from one record that counts while the user has a
\* pending record with both times set in the period.
C8_Witness ==
    /\ GenerateDone
    /\ \E r \in res.rows :
          /\ r.basicSalary > 0
          /\ \E a \in attendance, b \in attendance :
                /\ a.userId = r.userId /\ b.userId = r.userId
                /\ ISOMonth(a.date) = res.period /\ ISOMonth(b.date) = res.period
                /\ a.approvalStatus = "approved" /\ b.approvalStatus = "pending"
                /\ IsSet(a.clockIn) /\ IsSet(a.clockOut)
                /\ IsSet(b.clockIn) /\ IsSet(b.clockOut)

\* The example of the spec: user u has the hourly rate 20000 and the single
\* record a, approved, of a day of January 2024, 08:15 to 17:00 local time;
\* the config holds no entry
WorkedExample(u, a) ==
    /\ u.role # "admin"
    /\ \E q \in positions : Some(q.id) = u.positionId /\ q.hourlyRate = 20000
    /\ config = {}
    /\ {x \in attendance : x.userId = u.id} = {a}
    /\ a.approvalStatus = "approved"
    /\ ISOMonth(a.date) = Jan
    /\ a.clockIn = Some(a.date + 8 * HourLen + 15 * MinuteLen - tz)
    /\ a.clockOut = Some(a.date + 17 * HourLen - tz)

\* C9: Generate for 2024-01 on the example yields lateDeduction 30000 (15
\* minutes from 08:00), basicSalary 155000 (525 - 60 = 465 minutes paid) and
\* overtimePay 30000 (60 minutes past 16:00 at 1.5 times the rate).
C9_WorkedExample ==
    (GenerateDone /\ res.period = Jan) =>
        \A u \in users, a \in attendance :
            WorkedExample(u, a) =>
                \E r \in res.rows :
                    /\ r.userId = u.id
                    /\ r.lateDeduction = 30000
                    /\ r.basicSalary = 155000
                    /\ r.overtimePay = 30000

\* Generate ran through on the example.
C9_Witness ==
    /\ GenerateDone /\ res.period = Jan
    /\ \E u \in users, a \in attendance : WorkedExample(u, a)

-----------------------------------------------------------------------------
(* Leave requests *)

LeaveIds == 1..MaxLeaveId

\* POST /api/leaves: a request is created pending, nobody has decided it
PostLeave(userId) ==
    /\ nextId.leaves <= MaxLeaveId
    /\ leaves' = leaves \cup {[id |-> nextId.leaves, userId |-> userId,
                               status |-> "pending", approvedBy |-> None]}
    /\ nextId' = [nextId EXCEPT !.leaves = @ + 1]
    /\ res' = Crud(201)
    /\ UNCHANGED <<now, tz, users, positions, attendance, payroll, config, reqs>>

\* storage.updateLeave: the given columns are set
UpdateLeave(id, data) ==
    {IF l.id = id THEN SetColumns(l, data) ELSE l : l \in leaves}

\* PATCH /api/leaves/:id: any subset of the columns, unvalidated
PatchLeave(id, data) ==
    /\ leaves' = UpdateLeave(id, data)
    /\ res' = IF \E l \in leaves : l.id = id THEN Crud(200) ELSE Crud(404)
    /\ UNCHANGED <<now, tz, users, positions, attendance, payroll, config, nextId, reqs>>

\* DELETE /api/leaves/:id
DeleteLeave(id) ==
    /\ leaves' = {l \in leaves : l.id # id}
    /\ res' = IF \E l \in leaves : l.id = id THEN Crud(200) ELSE Crud(404)
    /\ UNCHANGED <<now, tz, users, positions, attendance, payroll, config, nextId, reqs>>

\* The approve action refusing only a status that is missing
ApproveLeaveTruthy(id, status, approvedBy) ==
    /\ IF status = ""
       THEN /\ res' = [Resp("approveLeave", 400, "Status must be 'approved' or 'rejected'", 0)
                          EXCEPT !.status = status]
            /\ UNCHANGED leaves
       ELSE /\ leaves' = UpdateLeave(id, IF IsSet(approvedBy)
                                          THEN [status |-> status, approvedBy |-> approvedBy]
                                          ELSE [status |-> status])
            /\ res' = [Resp("approveLeave", 200, "", 0) EXCEPT !.status = status]
    /\ UNCHANGED <<now, tz, users, positions, attendance, payroll, config, nextId, reqs>>

\* POST /api/leaves/:id/approve with the body {status, approvedBy}; an
\* approvedBy the body lacks (None) is undefined and no column is set for it
ApproveLeave(id, status, approvedBy) ==
    /\ IF status \notin {"approved", "rejected"}
       THEN /\ res' = [Resp("approveLeave", 400, "Status must be 'approved' or 'rejected'", 0)
                          EXCEPT !.status = status]
            /\ UNCHANGED leaves
       ELSE /\ leaves' = UpdateLeave(id, IF IsSet(approvedBy)
                                          THEN [status |-> status, approvedBy |-> approvedBy]
                                          ELSE [status |-> status])
            /\ res' = [(IF \E l \in leaves : l.id = id
                        THEN Resp("approveLeave", 200, "", 0)
                        ELSE Resp("approveLeave", 404, "Leave request not found", 0))
                          EXCEPT !.status = status]
    /\ UNCHANGED <<now, tz, users, positions, attendance, payroll, config, nextId, reqs>>

InitLeave ==
    /\ now = FirstInstant
    /\ tz = WIB
    /\ users = DemoUsers
    /\ positions = DemoPositions
    /\ attendance = {}
    /\ leaves = {}
    /\ payroll = {}
    /\ config = {}
    /\ nextId = FirstIds
    /\ reqs = [s \in Slots |-> Idle]
    /\ res = NoRes

\* req.body.status of the approve action: the two decisions, pending, none
StatusInputs == {"approved", "rejected", "pending", ""}

\* The bodies PATCH /api/leaves/:id is sent
LeavePatches == {[status |-> st] : st \in {"pending", "approved", "rejected"}}

NextLeave ==
    \/ \E u \in UserIds : PostLeave(u)
    \/ \E id \in LeaveIds, data \in LeavePatches : PatchLeave(id, data)
    \/ \E id \in LeaveIds : DeleteLeave(id)
    \/ \E id \in LeaveIds, st \in StatusInputs, by \in Option(UserIds) :
          ApproveLeave(id, st, by)

SpecLeave == InitLeave /\ [][NextLeave]_vars

\* C10: once the status of a leave request is approved or rejected, no
\* operation changes its status or its approvedBy again.
C10_DecidedLeaveNeverChanges ==
    [][\A l \in leaves :
          l.status \in {"approved", "rejected"}
              => \A m \in leaves' :
                    m.id = l.id => (m.status = l.status /\ m.approvedBy = l.approvedBy)]_vars

\* C10, the approve action alone: a step that answers an approve with 200
\* changes a leave request only from pending.
C10_ApproveOnlyFromPending ==
    [][res'.op = "approveLeave" /\ res'.code = 200
          => \A l \in leaves : l \notin leaves' => l.status = "pending"]_vars

\* C11: an approve whose status is neither approved nor rejected (pending, or
\* none) is answered 400 "Status must be 'approved' or 'rejected'" and leaves
\* every leave request, its status and approvedBy included, as it is.
C11_InvalidStatusRejected ==
    [][(res'.op = "approveLeave" /\ res'.status \notin {"approved", "rejected"})
          => (/\ res'.code = 400
              /\ res'.error = "Status must be 'approved' or 'rejected'"
              /\ leaves' = leaves)]_vars

\* An approve with the status pending was refused while a pending and a
\* decided request exist.
C11_Witness ==
    /\ res.op = "approveLeave" /\ res.code = 400 /\ res.status = "pending"
    /\ \E l \in leaves : l.status = "pending"
    /\ \E l \in leaves : l.status = "approved" /\ IsSet(l.approvedBy)

-----------------------------------------------------------------------------
(* Claims about the payroll lifecycle *)

\* C12: a finalize step of an existing row sets the status of that row to
\* final and changes no other field of it and no other row; and a step from a
\* state where a row is final leaves that row, if it is still in the table,
\* final with every amount as it was.
C12_FinalIsOneWay ==
    [][/\ \A id \in PayrollIds :
              (FinalizePayroll(id) /\ \E r \in payroll : r.id = id)
                  => \E r \in payroll :
                        /\ r.id = id
                        /\ payroll' = (payroll \ {r}) \cup {[r EXCEPT !.status = "final"]}
       /\ \A r \in payroll :
              r.status = "final" => \A q \in payroll' : q.id = r.id => q = r]_vars

-----------------------------------------------------------------------------
(* The attendance recorder with every kind of coordinates and a geofence
   radius that changes *)

InitClock ==
    /\ now = FirstInstant
    /\ tz = WIB
    /\ users = DemoUsers
    /\ positions = DemoPositions
    /\ attendance = {}
    /\ leaves = {}
    /\ payroll = {}
    /\ config = {}
    /\ nextId = FirstIds
    /\ reqs = [s \in Slots |-> Idle]
    /\ res = NoRes

\* One request at a time, the clock and the config moving at any step
NextClock ==
    \/ \E t \in WorkInstants : Tick(t)
    \/ \E u \in {0, 1}, at \in Coordinates, ph \in Photos :
          AllIdle /\ ClockInRecv(1, u, at, ph)
    \/ ClockInFind(1)
    \/ ClockInConfig(1)
    \/ ClockInInsert(1)
    \/ \E u \in {0, 1}, at \in Coordinates, ph \in Photos :
          AllIdle /\ ClockOutRecv(1, u, at, ph)
    \/ ClockOutFind(1)
    \/ ClockOutConfig(1)
    \/ ClockOutUpdate(1)
    \/ SetConfig("geofenceRadius", Some(200))
    \/ \E id \in AttendanceIds :
          AllIdle /\ PatchAttendance(id, [approvalStatus |-> "approved"])

SpecClock == InitClock /\ [][NextClock]_vars

\* C13: a clock-in that succeeds builds, when it has read the config, the row
\* of (userId, today) with status present, approvalStatus pending, clockIn the
\* time of that moment, no clockOut and the geofence result of the submitted
\* coordinates; its insert adds exactly that row under a fresh id, answers 201
\* with it and changes no other record.
C13_ClockInRecord ==
    [][\A s \in Slots :
          /\ (reqs[s].pc = "ci_cfg" /\ reqs'[s] # reqs[s])
                => /\ reqs'[s].pc = "ci_insert"
                   /\ reqs'[s].row.userId = reqs[s].userId
                   /\ ISODate(reqs'[s].row.date) = reqs[s].today
                   /\ reqs'[s].row.status = "present"
                   /\ reqs'[s].row.approvalStatus = "pending"
                   /\ reqs'[s].row.clockIn = Some(now)
                   /\ reqs'[s].row.clockOut = None
                   /\ reqs'[s].row.isWithinGeofenceIn =
                         Some(IsWithinGeofence(reqs[s].lat, reqs[s].lng, config))
                   /\ attendance' = attendance
          /\ (reqs[s].pc = "ci_insert" /\ reqs'[s] # reqs[s])
                => \E n \in attendance' :
                      /\ \A r \in attendance : r.id # n.id
                      /\ attendance' = attendance \cup {n}
                      /\ [n EXCEPT !.id = 0] = reqs[s].row
                      /\ res'.op = "clockIn" /\ res'.code = 201 /\ res'.rows = {n}]_vars

\* A clock-in at 17:00 local time, 111 m from the office with the radius at
\* its default, succeeded: the row is present and outside the geofence, and the
\* record of the day before is there.
C13_Witness ==
    /\ res.op = "clockIn" /\ res.code = 201
    /\ \E n \in res.rows :
          /\ n \in attendance
          /\ n.status = "present"
          /\ n.clockIn = Some(ParseLocal(ISODate(n.date), 17, 0))
          /\ n.clockInLng = FarEast.lng
          /\ n.isWithinGeofenceIn = Some(FALSE)
          /\ \E r \in attendance : r.id # n.id /\ r.isWithinGeofenceIn = Some(TRUE)

\* C14: the update of a clock-out that succeeds changes today's record of the
\* user in clockOut, clockOutLat, clockOutLng, clockOutPhoto and
\* isWithinGeofenceOut alone (clockOut the time at which the config was read,
\* the flag the geofence result of the submitted coordinates): approvalStatus,
\* status, clockIn, isWithinGeofenceIn, userId, date and id of the record are
\* as before, and every other record is unchanged.
C14_ClockOutFrame ==
    [][\A s \in Slots :
          /\ (reqs[s].pc = "co_cfg" /\ reqs'[s] # reqs[s])
                => /\ reqs'[s].pc = "co_update"
                   /\ reqs'[s].id = reqs[s].id
                   /\ reqs'[s].data.clockOut = Some(now)
                   /\ reqs'[s].data.isWithinGeofenceOut =
                         Some(IsWithinGeofence(reqs[s].lat, reqs[s].lng, config))
                   /\ attendance' = attendance
          /\ (reqs[s].pc = "co_update" /\ reqs'[s] # reqs[s])
                => \E r \in attendance, n \in attendance' :
                      /\ r.id = reqs[s].id
                      /\ r.userId = reqs[s].userId
                      /\ attendance' = (attendance \ {r}) \cup {n}
                      /\ \A f \in DOMAIN r \ {"clockOut", "clockOutLat", "clockOutLng",
                                                "clockOutPhoto", "isWithinGeofenceOut"} :
                            n[f] = r[f]
                      /\ n.clockOut = reqs[s].data.clockOut
                      /\ n.isWithinGeofenceOut = reqs[s].data.isWithinGeofenceOut
                      /\ res'.op = "clockOut" /\ res'.code = 200 /\ res'.rows = {n}]_vars

\* A clock-out of an approved record succeeded, away from the office, while
\* the record of another day is there.
C14_Witness ==
    /\ res.op = "clockOut" /\ res.code = 200
    /\ \E n \in res.rows :
          /\ n \in attendance
          /\ n.approvalStatus = "approved"
          /\ IsSet(n.clockIn) /\ n.clockOut = Some(now)
          /\ n.isWithinGeofenceIn = Some(TRUE)
          /\ n.isWithinGeofenceOut = Some(FALSE)
          /\ \E r \in attendance : r.id # n.id /\ IsSet(r.clockOut)

-----------------------------------------------------------------------------
(* The config store: set, bulk set and delete, one request at a time *)

ConfigKeys   == {"geofenceRadius", "latePenaltyPerMinute"}
ConfigValues == {None, Some(100), Some(200)}

InitConfig ==
    /\ now = FirstInstant
    /\ tz = WIB
    /\ users = DemoUsers
    /\ positions = DemoPositions
    /\ attendance = {}
    /\ leaves = {}
    /\ payroll = {}
    /\ config = {}
    /\ nextId = FirstIds
    /\ reqs = [s \in Slots |-> Idle]
    /\ res = NoRes

NextConfig ==
    \/ \E k \in ConfigKeys \cup {""}, v \in ConfigValues : AllIdle /\ SetConfig(k, v)
    \/ \E k1 \in ConfigKeys, k2 \in ConfigKeys, v \in {Some(100), Some(200)} :
          AllIdle /\ BulkConfigRecv(1, <<(<<k1, v>>), (<<k2, Some(150)>>)>>)
    \/ BulkConfigSet(1)
    \/ \E k \in ConfigKeys : AllIdle /\ DeleteConfig(k)

SpecConfig == InitConfig /\ [][NextConfig]_vars

\* C15: the config table holds at most one entry per key; a set of a key that
\* has an entry gives that entry the value and inserts nothing, a set of a new
\* key inserts one entry with the value, both leaving the other entries as
\* they are; and an entry changes or appears only by a set of its key, with the
\* value of that set, so that the value of a key is the one set last.
C15_ConfigUpsert ==
    /\ [](\A a \in config, b \in config : a.key = b.key => a = b)
    /\ [][/\ \A k \in ConfigKeys, v \in ConfigValues :
               SetConfig(k, v)
                   => /\ \E c \in config' : c.key = k /\ c.value = v /\ res'.rows = {c}
                      /\ \A c \in config : c.key # k => c \in config'
                      /\ (\E c \in config : c.key = k)
                            => /\ {c.id : c \in config'} = {c.id : c \in config}
                               /\ nextId' = nextId
                      /\ (\A c \in config : c.key # k)
                            => \E c \in config' : /\ c \notin config
                                                  /\ config' = config \cup {c}
          /\ \A c \in config' :
                \/ c \in config
                \/ \E v \in ConfigValues : SetConfig(c.key, v) /\ c.value = v
                \/ /\ BulkConfigSet(1)
                   /\ Head(reqs[1].entries) = <<c.key, c.value>>]_vars

\* The value of a key was set again after another key was inserted: the entry
\* kept its id and carries the new value.
C15_Witness ==
    /\ res.op = "setConfig" /\ res.code = 200
    /\ \E c \in res.rows :
          /\ c \in config
          /\ c.value = Some(200)
          /\ c.id + 1 < nextId.config
          /\ \E d \in config : d.key # c.key /\ d.id > c.id

-----------------------------------------------------------------------------
(* Claims about the arithmetic of Generate *)

\* The records that count for a generated row
CountedFor(r) == {a \in attendance : a.userId = r.userId /\ Qualifies(a, r.period)}

\* The local time of day of an instant on the day of a record, in half-minutes
\* after the local midnight of the record's date
LocalTimeOn(a, t) == Val(t) - (a.date - tz)

\* C16: the lateDeduction of a generated row is latePenaltyPerMinute times the
\* sum, over the records that count, of 0 for a clockIn at or before 08:10 of
\* the record's date and of floor((clockIn - 08:00) / 1 minute) for one after
\* 08:10; a single record at exactly 08:10 gives 0, one at 08:11 gives 11
\* minutes.
C16_Lateness ==
    GenerateDone =>
        \A r \in res.rows :
            LET Q == CountedFor(r)
                penalty == PayrollConfig(config).latePenaltyPerMinute
                late == [a \in Q |->
                           IF LocalTimeOn(a, a.clockIn) <= Clock(8, 10) THEN 0
                           ELSE (LocalTimeOn(a, a.clockIn) - Clock(8, 0)) \div MinuteLen]
            IN  /\ r.lateDeduction = SumOver(late, Q) * penalty
                /\ \A a \in Q :
                      (Q = {a} /\ LocalTimeOn(a, a.clockIn) = Clock(8, 10))
                          => r.lateDeduction = 0
                /\ \A a \in Q :
                      (Q = {a} /\ LocalTimeOn(a, a.clockIn) = Clock(8, 11))
                          => r.lateDeduction = 11 * penalty

\* A row was generated from a record of 08:11 and one of 08:30: 41 minutes.
C16_Witness ==
    /\ GenerateDone
    /\ \E r \in res.rows :
          /\ \E a \in CountedFor(r), b \in CountedFor(r) :
                /\ LocalTimeOn(a, a.clockIn) = Clock(8, 11)
                /\ LocalTimeOn(b, b.clockIn) = Clock(8, 30)
          /\ r.lateDeduction = 41 * PayrollConfig(config).latePenaltyPerMinute

\* A single record of exactly 08:10 was paid without a deduction.
C16_OnTimeAt0810 ==
    /\ GenerateDone
    /\ \E r \in res.rows :
          /\ \E a \in CountedFor(r) :
                CountedFor(r) = {a} /\ LocalTimeOn(a, a.clockIn) = Clock(8, 10)
          /\ r.lateDeduction = 0 /\ r.basicSalary > 0

\* The hourly rate a generated row was computed with
RateOf(r) == HourlyRate(CHOOSE u \in users : u.id = r.userId, positions)

\* C17: the work minutes behind a generated row are the sum, over the records
\* that count, of the paid minutes of the raw duration
\* d = floor((clockOut - clockIn) / 1 minute): 0 when d < 0, d when
\* 0 <= d <= 240, d - 60 when d > 240; the sum is never negative.  The row
\* shows them as basicSalary = floor(minutes * rate / 60): a single record of
\* exactly 240 minutes is paid 4 hours, one of 241 minutes 181 minutes.
C17_PaidMinutes ==
    GenerateDone =>
        \A r \in res.rows :
            LET Q == CountedFor(r)
                raw == [a \in Q |-> (Val(a.clockOut) - Val(a.clockIn)) \div MinuteLen]
                paid == [a \in Q |-> IF raw[a] < 0 THEN 0
                                     ELSE IF raw[a] <= 240 THEN raw[a]
                                     ELSE raw[a] - 60]
            IN  /\ SumOver(paid, Q) >= 0
                /\ r.basicSalary = (SumOver(paid, Q) * RateOf(r)) \div 60
                /\ \A a \in Q : (Q = {a} /\ raw[a] = 240) => r.basicSalary = 4 * RateOf(r)
                /\ \A a \in Q : (Q = {a} /\ raw[a] = 241)
                                    => r.basicSalary = (181 * RateOf(r)) \div 60
                /\ \A a \in Q : (Q = {a} /\ raw[a] < 0) => r.basicSalary = 0

\* A row was generated from a single record of exactly 240 minutes, paid in full.
C17_Witness ==
    /\ GenerateDone
    /\ \E r \in res.rows :
          /\ \E a \in CountedFor(r) :
                /\ CountedFor(r) = {a}
                /\ Val(a.clockOut) - Val(a.clockIn) = 240 * MinuteLen
          /\ RateOf(r) = 12500
          /\ r.basicSalary = 50000

\* A row was generated from a record whose clockOut is before its clockIn and
\* a record of 511 minutes: 451 minutes are paid.
C17_NegativeDurationPaidZero ==
    /\ GenerateDone
    /\ \E r \in res.rows :
          /\ \E a \in CountedFor(r), b \in CountedFor(r) :
                /\ Val(a.clockOut) < Val(a.clockIn)
                /\ Val(b.clockOut) - Val(b.clockIn) = 511 * MinuteLen
          /\ RateOf(r) = 20000
          /\ r.basicSalary = (451 * 20000) \div 60

C19_PaidRow ==
    /\ GenerateDone
    /\ \E r \in res.rows :
          /\ r.basicSalary = 93958
          /\ r.bpjsDeduction = 3758
          /\ r.pph21Deduction = 4697
          /\ r.overtimePay > 0 /\ r.lateDeduction > 0

-----------------------------------------------------------------------------
(* Generate requests whose steps interleave *)

NextPayrollConc ==
    \/ \E s \in Slots, period \in {Jan, Feb} : GenerateRecv(s, period)
    \/ \E s \in Slots : GenerateDelete(s)
    \/ \E s \in Slots : GenerateUsers(s)
    \/ \E s \in Slots : GeneratePositions(s)
    \/ \E s \in Slots : GenerateConfigs(s)
    \/ \E s \in Slots : GenerateAttendance(s)
    \/ \E s \in Slots : GenerateInsert(s)

SpecPayrollConc == InitPayroll /\ [][NextPayrollConc]_vars

\* C20: the insert of a Generate adds its row under a fresh id and removes or
\* replaces no row, whatever the table holds: when another request of the same
\* period has inserted its row of the employee after this request's delete,
\* the period holds two rows of the same (userId, period) from then on.
C20_InsertKeepsTheOtherRow ==
    [][\A s \in Slots :
          (reqs[s].pc = "gen_insert" /\ reqs'[s] # reqs[s])
              => \E n \in payroll' :
                    /\ \A r \in payroll : r.id # n.id
                    /\ payroll' = payroll \cup {n}
                    /\ [n EXCEPT !.id = 0] = reqs[s].row
                    /\ \A b \in payroll :
                          (b.userId = n.userId /\ b.period = n.period)
                              => \E x \in payroll', y \in payroll' :
                                    /\ x # y
                                    /\ x.userId = y.userId /\ x.period = y.period]_vars

\* Two Generates of one period have both answered 201 and the period holds
\* two rows of the same employee.
C20_Witness ==
    /\ AllIdle
    /\ res.op = "generate" /\ res.code = 201
    /\ \E a \in payroll, b \in payroll :
          /\ a # b
          /\ a.userId = b.userId /\ a.period = b.period
          /\ a.period = res.period
          /\ a \in res.rows /\ b \notin res.rows

-----------------------------------------------------------------------------
(* Generate over two employees with inserts that may fail, one request at a time *)

InitPayrollFail ==
    /\ now = FirstInstant
    /\ tz = WIB
    /\ users = {[id |-> 1, role |-> "employee", positionId |-> Some(1)],
                [id |-> 2, role |-> "employee", positionId |-> None]}
    /\ positions = DemoPositions
    /\ attendance = {WorkedDay(1, 1, FirstDay, "approved", Clock(8, 15), Clock(17, 0)),
                     WorkedDay(2, 2, FirstDay, "approved", Clock(8, 0), Clock(16, 0))}
    /\ leaves = {}
    /\ payroll = {}
    /\ config = {}
    /\ nextId = [FirstIds EXCEPT !.attendance = 3]
    /\ reqs = [s \in Slots |-> Idle]
    /\ res = NoRes

NextPayrollFail ==
    \/ \E period \in {Jan, Feb} : AllIdle /\ GenerateRecv(1, period)
    \/ GenerateDelete(1)
    \/ GenerateUsers(1)
    \/ GeneratePositions(1)
    \/ GenerateConfigs(1)
    \/ GenerateAttendance(1)
    \/ GenerateInsert(1)
    \/ GenerateInsertFails(1)
    \/ \E id \in PayrollIds : AllIdle /\ FinalizePayroll(id)

SpecPayrollFail == InitPayrollFail /\ [][NextPayrollFail]_vars

\* C21: when an insert of Generate fails, the request answers 500 and stops:
\* the step writes nothing, the rows the request inserted for the employees
\* before are in the table as drafts, the period holds no other row (none of
\* the failing employee, none of a later one), and none of the rows the period
\* held when the request arrived is back.
C21_FailedInsertLeavesPartialRows ==
    /\ [][(res'.op = "generate" /\ res'.code = 500)
              => (payroll' = payroll /\ nextId' = nextId /\ AllIdle')]_vars
    /\ []((res.op = "generate" /\ res.code = 500)
              => /\ RowsOfPeriod(res.period) = res.rows
                 /\ \A r \in res.rows : r.status = "draft"
                 /\ \A r \in payroll : r.period = res.period => r.userId # res.userId
                 /\ Cardinality(res.rows) < Cardinality(Employees(users))
                 /\ res.old \cap payroll = {})

\* The insert of the second employee failed in a Generate that had deleted a
\* final row of the period: one draft row is left.
C21_Witness ==
    /\ res.op = "generate" /\ res.code = 500
    /\ Cardinality(res.rows) = 1
    /\ RowsOfPeriod(res.period) = res.rows
    /\ \E o \in res.old : o.status = "final"

-----------------------------------------------------------------------------
(* Clock-in and clock-out of one user around midnight, in UTC and in UTC+7 *)

InitToday ==
    /\ now = FirstInstant
    /\ tz \in TimeZones
    /\ users = DemoUsers
    /\ positions = DemoPositions
    /\ attendance = {}
    /\ leaves = {}
    /\ payroll = {}
    /\ config = {}
    /\ nextId = FirstIds
    /\ reqs = [s \in Slots |-> Idle]
    /\ res = NoRes

\* The clock stops at 01:15, 10:00 and 18:00 UTC; a request takes no time on
\* that scale, so the clock moves between requests
NextToday ==
    \/ \E t \in ClockInstants : AllIdle /\ Tick(t)
    \/ \E u \in {0, 1}, at \in InOrOut, ph \in Photos : AllIdle /\ ClockInRecv(1, u, at, ph)
    \/ ClockInFind(1)
    \/ ClockInConfig(1)
    \/ ClockInInsert(1)
    \/ \E u \in {0, 1}, at \in InOrOut, ph \in Photos : AllIdle /\ ClockOutRecv(1, u, at, ph)
    \/ ClockOutFind(1)
    \/ ClockOutConfig(1)
    \/ ClockOutUpdate(1)

SpecToday == InitToday /\ [][NextToday]_vars

\* The calendar day of the instant t on the server's local clock
LocalDay(t) == (t + tz) \div DayLen

ClockedInOn(userId, day) ==
    {a \in attendance : a.userId = userId /\ IsSet(a.clockIn)
                                         /\ LocalDay(Val(a.clockIn)) = day}

\* C22: "today" is the server's local calendar day, in every time zone: a user
\* has at most one record per local day; a clock-in is refused as a second one
\* only when the user has clocked in on the local day of the request, and a
\* clock-out finds no record only when the user has not.
C22_TodayIsLocalDay ==
    /\ \A a, b \in attendance :
          (a.userId = b.userId /\ IsSet(a.clockIn) /\ IsSet(b.clockIn)
             /\ LocalDay(Val(a.clockIn)) = LocalDay(Val(b.clockIn))) => a = b
    /\ (res.op = "clockIn" /\ res.error = "Already clocked in today")
          => ClockedInOn(res.userId, LocalDay(now)) # {}
    /\ (res.op = "clockOut" /\ res.error = "No clock in record found for today")
          => ClockedInOn(res.userId, LocalDay(now)) = {}

-----------------------------------------------------------------------------
(* The geofence: clock-in and clock-out from three places, the radius and the
   office moving between requests *)

\* The office moved 111 m east, to the place FarEast
MovedOfficeLng == DefaultOfficeLng + 1000

\* What POST /api/config is sent
GeofenceSettings ==
    {<<"geofenceRadius", Some(0)>>, <<"geofenceRadius", Some(200)>>,
     <<"officeLng", Some(MovedOfficeLng)>>}

InitGeofence ==
    /\ now = FirstInstant
    /\ tz = WIB
    /\ users = DemoUsers
    /\ positions = DemoPositions
    /\ attendance = {}
    /\ leaves = {}
    /\ payroll = {}
    /\ config = {}
    /\ nextId = FirstIds
    /\ reqs = [s \in Slots |-> Idle]
    /\ res = NoRes

NextGeofence ==
    \/ \E u \in {1}, at \in Coordinates, ph \in Photos : AllIdle /\ ClockInRecv(1, u, at, ph)
    \/ ClockInFind(1)
    \/ ClockInConfig(1)
    \/ ClockInInsert(1)
    \/ \E u \in {1}, at \in Coordinates, ph \in Photos : AllIdle /\ ClockOutRecv(1, u, at, ph)
    \/ ClockOutFind(1)
    \/ ClockOutConfig(1)
    \/ ClockOutUpdate(1)
    \/ \E e \in GeofenceSettings : AllIdle /\ SetConfig(e[1], e[2])
    \/ AllIdle /\ DeleteConfig("geofenceRadius")

SpecGeofence == InitGeofence /\ [][NextGeofence]_vars

\* The office and the radius the config table gives now
OfficeLatNow == ConfigValue(config, "officeLat", DefaultOfficeLat)
OfficeLngNow == ConfigValue(config, "officeLng", DefaultOfficeLng)
RadiusNow    == ConfigValue(config, "geofenceRadius", DefaultRadius)

\* The place (lat, lng) was sent and lies within the radius, boundary included
InsideNow(lat, lng) ==
    /\ IsSet(lat) /\ IsSet(lng)
    /\ DistanceMm(Val(lat), Val(lng), OfficeLatNow, OfficeLngNow) <= RadiusNow * 1000

\* The last step answered a clock-in or a clock-out that wrote its record
ClockInDone  == res.op = "clockIn" /\ res.code = 201
ClockOutDone == res.op = "clockOut" /\ res.code = 200

\* C23: the flag a clock-in or clock-out stores is true exactly when the
\* distance from the place sent to the office is at most the configured
\* radius; at the office itself the distance is 0 and the flag is true for
\* every radius (0 and 100 among them), and 111 m away it is true for radius
\* 200 alone.
C23_FlagIsDistanceWithinRadius ==
    /\ ClockInDone => \A r \in res.rows :
          /\ r \in attendance
          /\ r.isWithinGeofenceIn = Some(InsideNow(r.clockInLat, r.clockInLng))
          /\ (r.clockInLat = Some(OfficeLatNow) /\ r.clockInLng = Some(OfficeLngNow))
                => r.isWithinGeofenceIn = Some(TRUE)
          /\ (r.clockInLat = Some(OfficeLatNow) /\ IsSet(r.clockInLng)
                /\ Abs(Val(r.clockInLng) - OfficeLngNow) = 1000)
                => r.isWithinGeofenceIn = Some(RadiusNow >= 112)
    /\ ClockOutDone => \A r \in res.rows :
          /\ r \in attendance
          /\ r.isWithinGeofenceOut = Some(InsideNow(r.clockOutLat, r.clockOutLng))
          /\ (r.clockOutLat = Some(OfficeLatNow) /\ r.clockOutLng = Some(OfficeLngNow))
                => r.isWithinGeofenceOut = Some(TRUE)
          /\ (r.clockOutLat = Some(OfficeLatNow) /\ IsSet(r.clockOutLng)
                /\ Abs(Val(r.clockOutLng) - OfficeLngNow) = 1000)
                => r.isWithinGeofenceOut = Some(RadiusNow >= 112)

\* A clock-in at the office with the radius set to 0 (distance 0, on the
\* boundary) is stored as inside, after the office had been moved there
C23_Witness ==
    /\ ClockInDone
    /\ RadiusNow = 0 /\ OfficeLngNow = MovedOfficeLng
    /\ \E r \in res.rows :
          /\ r.clockInLng = Some(MovedOfficeLng)
          /\ r.isWithinGeofenceIn = Some(TRUE)

\* The messages clock-in and clock-out refuse a request with
ClockErrors ==
    {"User ID required", "Already clocked in today",
     "No clock in record found for today", "Already clocked out today"}

\* C24: a clock-in or clock-out without lat or lng is not refused for that:
\* the record is written with the flag false, whatever the radius, and the
\* only refusals are those of the user id and of the record of today.
C24_MissingCoordinatesStoredOutside ==
    /\ ClockInDone => \A r \in res.rows :
          (~IsSet(r.clockInLat) \/ ~IsSet(r.clockInLng))
             => (r \in attendance /\ r.isWithinGeofenceIn = Some(FALSE))
    /\ ClockOutDone => \A r \in res.rows :
          (~IsSet(r.clockOutLat) \/ ~IsSet(r.clockOutLng))
             => (r \in attendance /\ r.isWithinGeofenceOut = Some(FALSE))
    /\ (res.op \in {"clockIn", "clockOut"} /\ res.code # 0)
          => (res.code \in {200, 201} \/ (res.code = 400 /\ res.error \in ClockErrors))

\* A clock-out without coordinates, the radius at 200, was stored as outside
\* on a record whose clock-in had none either
C24_Witness ==
    /\ ClockOutDone
    /\ RadiusNow = 200
    /\ \E r \in res.rows :
          /\ r.clockInLat = None /\ r.isWithinGeofenceIn = Some(FALSE)
          /\ r.clockOutLat = None /\ r.clockOutLng = None
          /\ r.isWithinGeofenceOut = Some(FALSE)

\* C25: a clock-out checks its place against the office and the radius of the
\* config table as they are when it runs, with 100 m and the default office
\* where the table has no entry; the flag stored at clock-in is never changed,
\* neither by a change of the config nor by the clock-out.
C25_GeofenceReadAtRequest ==
    /\ [][\A a \in attendance : \A b \in attendance' :
              b.id = a.id => b.isWithinGeofenceIn = a.isWithinGeofenceIn]_vars
    /\ [](ClockOutDone => \A r \in res.rows :
              /\ r.isWithinGeofenceOut = Some(InsideNow(r.clockOutLat, r.clockOutLng))
              /\ (\A c \in config : c.key # "geofenceRadius")
                    => (r.isWithinGeofenceOut = Some(TRUE)
                          <=> (r.clockOutLat = Some(OfficeLatNow)
                                 /\ r.clockOutLng = Some(OfficeLngNow)))
              /\ (config = {} /\ r.clockOutLat = AtOffice.lat /\ r.clockOutLng = AtOffice.lng)
                    => r.isWithinGeofenceOut = Some(TRUE))

\* Clocked in 111 m from the office under radius 100 and out from the same
\* place under radius 200: outside at clock-in, inside at clock-out
C25_Witness ==
    /\ ClockOutDone
    /\ RadiusNow = 200
    /\ \E r \in res.rows :
          /\ r.clockInLat = FarEast.lat /\ r.clockInLng = FarEast.lng
          /\ r.clockOutLat = FarEast.lat /\ r.clockOutLng = FarEast.lng
          /\ r.isWithinGeofenceIn = Some(FALSE)
          /\ r.isWithinGeofenceOut = Some(TRUE)

\* The radius entry was deleted after a clock-in under radius 200: the
\* clock-out 111 m away falls back to 100 m and is outside
C25_DefaultAfterDelete ==
    /\ ClockOutDone
    /\ \A c \in config : c.key # "geofenceRadius"
    /\ \E r \in res.rows :
          /\ r.clockInLng = FarEast.lng /\ r.isWithinGeofenceIn = Some(TRUE)
          /\ r.clockOutLng = FarEast.lng /\ r.isWithinGeofenceOut = Some(FALSE)

-----------------------------------------------------------------------------
(* What Generate leaves alone *)

\* C26: the steps of a Generate(P) leave the users, the positions, the
\* attendance, the leaves and the config as they are, and every payroll row of
\* a period other than P; a request that is refused for its period, and the
\* step that accepts one, change no table at all.
C26_GenerateFrame ==
    [][\A s \in Slots :
          /\ (reqs[s].pc = "idle"
                /\ (reqs'[s].pc = "gen_delete"
                      \/ (res'.op = "generate" /\ res'.code = 400 /\ res'.slot = s)))
                => UNCHANGED <<users, positions, attendance, leaves, config, payroll>>
          /\ (reqs[s].pc \in GeneratePcs /\ reqs'[s] # reqs[s])
                => /\ UNCHANGED <<users, positions, attendance, leaves, config>>
                   /\ {r \in payroll' : r.period # reqs[s].period}
                         = {r \in payroll : r.period # reqs[s].period}]_vars

\* February was generated while January held a final row with a bonus: the
\* row is there as it was
C26_Witness ==
    /\ GenerateDone
    /\ res.period = Feb
    /\ res.rows # {}
    /\ \E r \in payroll : r.period = Jan /\ r.status = "final" /\ r.bonus = 50000

\* The rows without their ids: the values a payroll run is judged by
RowValues(rows) ==
    {[userId |-> r.userId, basicSalary |-> r.basicSalary, overtimePay |-> r.overtimePay,
      lateDeduction |-> r.lateDeduction, bpjsDeduction |-> r.bpjsDeduction,
      pph21Deduction |-> r.pph21Deduction, totalNet |-> r.totalNet,
      status |-> r.status] : r \in rows}

\* C27: a Generate of a period that was generated before, nothing else having
\* happened since, leaves as many rows as the period held and the same values
\* (userId, the five amounts, totalNet, status); the ids are new.
C27_GenerateIdempotentOnValues ==
    (GenerateDone /\ res.old # {}) =>
        /\ RowValues(RowsOfPeriod(res.period)) = RowValues(res.old)
        /\ Cardinality(RowsOfPeriod(res.period)) = Cardinality(res.old)
        /\ \A r \in RowsOfPeriod(res.period), o \in res.old : r.id # o.id

\* January was generated a second time for an employee with pay and a late
\* deduction: row 2 stands where row 1 stood
C27_Witness ==
    /\ GenerateDone /\ res.old # {}
    /\ \E r \in RowsOfPeriod(res.period), o \in res.old :
          /\ r.id > o.id
          /\ r.basicSalary > 0 /\ r.lateDeduction > 0 /\ r.overtimePay > 0
          /\ r.totalNet = o.totalNet

-----------------------------------------------------------------------------
(* Clock-in and clock-out alone, the requests of a user overlapping and the
   clock moving at any step *)

NextRecorder ==
    \/ \E t \in ClockInstants : Tick(t)
    \/ \E s \in Slots, u \in {1}, at \in {AtOffice}, ph \in Photos : ClockInRecv(s, u, at, ph)
    \/ \E s \in Slots : ClockInFind(s)
    \/ \E s \in Slots : ClockInConfig(s)
    \/ \E s \in Slots : ClockInInsert(s)
    \/ \E s \in Slots, u \in {1}, at \in {AtOffice}, ph \in Photos : ClockOutRecv(s, u, at, ph)
    \/ \E s \in Slots : ClockOutFind(s)
    \/ \E s \in Slots : ClockOutConfig(s)
    \/ \E s \in Slots : ClockOutUpdate(s)

SpecRecorder == InitAttendance /\ [][NextRecorder]_vars

\* C28: with clock-in and clock-out the only writers and the clock never
\* going back, every record has its clockIn and is pending, and a record with
\* a clockOut has clockIn <= clockOut.
C28_ClockInBeforeClockOut ==
    \A a \in attendance :
        /\ IsSet(a.clockIn)
        /\ a.approvalStatus = "pending"
        /\ IsSet(a.clockOut) => Val(a.clockIn) <= Val(a.clockOut)

\* A record clocked out hours after its clock-in, and one clocked out at the
\* instant of its clock-in
C28_Witness ==
    /\ \E a \in attendance : IsSet(a.clockOut) /\ Val(a.clockIn) < Val(a.clockOut)
    /\ \E a \in attendance : IsSet(a.clockOut) /\ a.clockIn = a.clockOut

-----------------------------------------------------------------------------
(* Lateness and overtime of a single record *)

\* C29: the late minutes of a record are 0 or at least 10, never 1 to 9: a
\* generated row has lateDeduction 0 or at least 10 times the penalty; the
\* row of a single record has 0 for a clockIn up to 08:10, at least 10
\* penalties for one after it, and exactly 10 for 08:10:30.
C29_LateMinutesZeroOrTenUp ==
    GenerateDone =>
        \A r \in res.rows :
            LET penalty == PayrollConfig(config).latePenaltyPerMinute
            IN  /\ r.lateDeduction = 0 \/ r.lateDeduction >= 10 * penalty
                /\ \A a \in CountedFor(r) :
                      CountedFor(r) = {a} =>
                         /\ LocalTimeOn(a, a.clockIn) <= Clock(8, 10) <=> r.lateDeduction = 0
                         /\ LocalTimeOn(a, a.clockIn) = Clock(8, 10) + 1
                               => r.lateDeduction = 10 * penalty

\* A single record of 08:10:30 was charged ten minutes
C29_Witness ==
    /\ GenerateDone
    /\ \E r \in res.rows : \E a \in CountedFor(r) :
          /\ CountedFor(r) = {a}
          /\ LocalTimeOn(a, a.clockIn) = Clock(8, 10) + 1
          /\ r.lateDeduction = 10 * PayrollConfig(config).latePenaltyPerMinute
          /\ r.lateDeduction > 0

\* C30: the overtime of a record is a matter of its clockOut and the rate
\* alone: the row of a single record whose clockIn is at or after 16:00 is
\* paid overtime for every whole minute from 16:00 to the clockOut, which is
\* at least, and for a clockIn after 16:00 more than, the minutes from clockIn
\* to clockOut that basicSalary pays.
C30_OvertimeIgnoresClockIn ==
    GenerateDone =>
        \A r \in res.rows : \A a \in CountedFor(r) :
            (CountedFor(r) = {a} /\ LocalTimeOn(a, a.clockIn) >= Clock(16, 0)
               /\ LocalTimeOn(a, a.clockOut) > Clock(16, 0))
            => LET m   == (LocalTimeOn(a, a.clockOut) - Clock(16, 0)) \div MinuteLen
                   raw == (Val(a.clockOut) - Val(a.clockIn)) \div MinuteLen
               IN  /\ r.overtimePay
                         = (RateOf(r) * (3 * Min(m, 60) + 4 * Max(0, m - 60))) \div 120
                   /\ m >= raw
                   /\ LocalTimeOn(a, a.clockIn) >= Clock(16, 1) => m > raw
                   /\ r.basicSalary = (Max(0, raw) * RateOf(r)) \div 60

\* A single record from 16:30 to 17:00 at the rate 20000: 30 minutes of basic
\* pay and 60 minutes of overtime
C30_Witness ==
    /\ GenerateDone
    /\ \E r \in res.rows : \E a \in CountedFor(r) :
          /\ CountedFor(r) = {a}
          /\ LocalTimeOn(a, a.clockIn) = Clock(16, 30)
          /\ LocalTimeOn(a, a.clockOut) = Clock(17, 0)
          /\ RateOf(r) = 20000
          /\ r.basicSalary = 10000
          /\ r.overtimePay = 30000

====
